---------------------------- MODULE Spec2Model ----------------------------
(***************************************************************************)
(* A model of the ccx data-preparation pipeline (compleat-context):        *)
(*   - the size-bounded combo writers of ccx/commands/build_spellbook.py   *)
(*     (write_jsonl_files, _write_csv_files, _write_card_index,            *)
(*     write_markdown_files, composed by write_output_files),              *)
(*   - the record normalizer parse_spellbook_combos,                       *)
(*   - the price aggregator build_oracle_price_index of                    *)
(*     ccx/commands/build.py.                                              *)
(* Each part has its own specification over the shared variables; the      *)
(* variables of the parts a specification does not run stay at their idle  *)
(* values.                                                                 *)
(***************************************************************************)
EXTENDS Integers, Sequences, FiniteSets, TLC

VARIABLES
    \* ---- write_output_files (build_spellbook.py) ----
    pc,                     \* position in write_output_files
    combos,                 \* the combos argument: per combo its serialized sizes
    compress,               \* the compress argument
    fs_writes,              \* every file written, in write order: [dir, name, content]
    all_written_files,      \* write_output_files: all_written_files
    jl_i,                   \* write_jsonl_files: position of the for loop
    jl_written_files,       \* write_jsonl_files: written_files
    jl_current_file_index,  \* write_jsonl_files: current_file_index
    jl_current_lines,       \* write_jsonl_files: current_lines (combo positions)
    jl_current_tokens,      \* write_jsonl_files: current_tokens
    jl_current_size_bytes,  \* write_jsonl_files: current_size_bytes
    md_i,                   \* write_markdown_files: position of the for loop
    md_written_files,       \* write_markdown_files: written_files
    md_current_file_index,  \* write_markdown_files: current_file_index
    md_current_lines,       \* write_markdown_files: current_lines (combo positions)
    md_current_tokens,      \* write_markdown_files: current_tokens
    md_current_size_bytes,  \* write_markdown_files: current_size_bytes
    \* ---- parse_spellbook_combos (build_spellbook.py) ----
    parse_pc,               \* "idle", "start", "yielded" or "raised"
    raw_combo,              \* the combo ijson hands to the loop body
    normalized,             \* the dict the generator yields
    \* ---- build_oracle_price_index (build.py) ----
    price_pc,               \* "idle", "start" or "done"
    default_cards,          \* the default_cards argument
    price_index             \* the dict build_oracle_price_index returns

writerVars == <<pc, combos, compress, fs_writes, all_written_files,
                jl_i, jl_written_files, jl_current_file_index, jl_current_lines,
                jl_current_tokens, jl_current_size_bytes,
                md_i, md_written_files, md_current_file_index, md_current_lines,
                md_current_tokens, md_current_size_bytes>>

parseVars == <<parse_pc, raw_combo, normalized>>

priceVars == <<price_pc, default_cards, price_index>>

VARIABLES
    \* ---- filter_playable_cards (build.py) ----
    filter_pc,              \* "idle", "start", "returned" or "raised"
    filter_cards,           \* the cards argument
    playable_cards          \* the list filter_playable_cards returns

filterVars == <<filter_pc, filter_cards, playable_cards>>

VARIABLES
    \* ---- colors_str (build.py) ----
    colors_pc,              \* "idle", "start" or "returned"
    colors_lst,             \* the lst argument: None or a list of symbols
    colors_result           \* the string colors_str returns, as its characters

colorsVars == <<colors_pc, colors_lst, colors_result>>

VARIABLES
    \* ---- trim_and_dedupe_cards (build.py) ----
    trim_pc,                \* "idle", "start" or "returned"
    trim_cards,             \* the cards argument
    trim_price_index,       \* the price_index argument
    trim_result             \* the records trim_and_dedupe_cards returns

trimVars == <<trim_pc, trim_cards, trim_price_index, trim_result>>

VARIABLES
    \* ---- merge_dfc_oracle_text (build.py) ----
    merge_pc,               \* "idle", "start", "returned" or "raised"
    merge_cards,            \* the dicts of the cards argument, as they are now
    processed_cards         \* the list merge_dfc_oracle_text returns

mergeVars == <<merge_pc, merge_cards, processed_cards>>

VARIABLES
    \* ---- build() and build_spellbook(): one run ----
    run_kind,               \* "none", "build" or "spellbook"
    stage,                  \* the call the run is about to make, "done" or "failed"
    run_cards,              \* build: cards
    card_writes,            \* build: every file written into DATA_DIR, in write order
    written_files,          \* build: written_files
    data_dir,               \* build: the names of the files in DATA_DIR
    manifest_json,          \* build: the content of DATA_DIR/manifest.json
    manifest_log,           \* every manifest written by the run, in write order
    exit_code               \* the exit status of the process, -1 while it runs

runVars == <<run_kind, stage, run_cards, card_writes, written_files, data_dir,
             manifest_json, manifest_log, exit_code>>

\* The variables of the functions of build.py and of a run.
\* One block of write_markdown_files: the combo, and md_lines once built.
VARIABLES
    block_pc,
    block_combo,
    md_lines

blockVars == <<block_pc, block_combo, md_lines>>

\* _write_card_index: the combos, and the lines of the index once built.
VARIABLES
    index_pc,
    index_combos,
    card_index

indexVars == <<index_pc, index_combos, card_index>>

comboVars == <<blockVars, indexVars>>

cardVars == <<filterVars, colorsVars, trimVars, mergeVars, runVars, comboVars>>

vars == <<writerVars, parseVars, priceVars, cardVars>>

---------------------------------------------------------------------------
(* Bounds of the model.                                                    *)

\* The two ceilings of the size-bounded writers.  The program reads them
\* from the configuration (defaults 2,000,000 tokens and 512 MiB); the model
\* scales them down so that a handful of records reaches them.
MAX_TOKENS_PER_FILE == 2
MAX_FILE_SIZE_BYTES == 2

\* The longest combos list the writers are run on.
MaxCombos == 3

\* The size of a raw combo: its top-level keys other than uses/produces
\* plus the entries of its uses and produces lists.
MaxParts == 2

\* The longest default_cards list the price index is built from.
MaxPrintings == 2

\* The longest color array given to colors_str.
MaxColors == 3

\* The longest list of cards given to trim_and_dedupe_cards.
MaxCards == 3

\* The most faces of a card given to merge_dfc_oracle_text.
MaxFaces == 2

\* The most cards, and the most combos, of a run of a pipeline.
MaxRunCards == 2

---------------------------------------------------------------------------
(* Inputs of the writers.                                                  *)

\* The sizes a serialized combo is given against a ceiling: the smallest,
\* exactly the ceiling, and one over it.
SizeChoices(ceiling) == {1, ceiling, ceiling + 1}

\* What the writers read of one combo: the byte length and the token count
\* of its serialized form (json_line / combo_md).  A serialized combo is
\* never empty; one alone may exceed either ceiling.
UnitSizes ==
    [bytes : SizeChoices(MAX_FILE_SIZE_BYTES), tokens : SizeChoices(MAX_TOKENS_PER_FILE)]

CombosLists == UNION {[1..n -> UnitSizes] : n \in 0..MaxCombos}

---------------------------------------------------------------------------
(* Helpers shared by the writers.                                          *)

\* f"combos_{current_file_index}{file_ext}" if current_file_index > 1
\* else f"combos{file_ext}"; num = 0 stands for the unnumbered name.
Filename_AlwaysNumbered(current_file_index, file_ext) ==
    [stem |-> "combos", num |-> current_file_index, ext |-> file_ext]

Filename_Unnumbered(current_file_index, file_ext) ==
    [stem |-> "combos", num |-> 0, ext |-> file_ext]

Filename(current_file_index, file_ext) ==
    IF current_file_index > 1
    THEN [stem |-> "combos", num |-> current_file_index, ext |-> file_ext]
    ELSE [stem |-> "combos", num |-> 0, ext |-> file_ext]

\* file_ext = ".jsonl.gz" if compress else ".jsonl" (and likewise .md, .csv)
JsonlExt(c) == IF c THEN ".jsonl.gz" ELSE ".jsonl"
MdExt(c) == IF c THEN ".md.gz" ELSE ".md"
CsvExt(c) == IF c THEN ".csv.gz" ELSE ".csv"

\* open(output_dir / filename, "w") ... write: one more file written
WriteFile(log, dir, name, content) ==
    Append(log, [dir |-> dir, name |-> name, content |-> content])

AfterReset_Kept(split, current) == current

\* "Reset for next batch": current_tokens = 0, current_size_bytes = 0 when
\* the batch was written, the counter as it is otherwise
AfterReset(split, current) == IF split THEN 0 ELSE current

\* [f"{dir}/{f}" for f in files]
Prefixed(dir, files) == [k \in 1..Len(files) |-> [dir |-> dir, name |-> files[k]]]

---------------------------------------------------------------------------
(* write_jsonl_files                                                       *)

JsonlNeedSplit_NoEmptyGuard(current_lines, current_tokens, current_size_bytes, line_tokens, line_bytes) ==
    \/ current_tokens + line_tokens > MAX_TOKENS_PER_FILE
    \/ current_size_bytes + line_bytes > MAX_FILE_SIZE_BYTES

JsonlNeedSplit_BytesOnly(current_lines, current_tokens, current_size_bytes, line_tokens, line_bytes) ==
    /\ current_lines # <<>>
    /\ current_size_bytes + line_bytes > MAX_FILE_SIZE_BYTES

JsonlNeedSplit_CurrentOnly(current_lines, current_tokens, current_size_bytes, line_tokens, line_bytes) ==
    /\ current_lines # <<>>
    /\ \/ current_tokens > MAX_TOKENS_PER_FILE
       \/ current_size_bytes > MAX_FILE_SIZE_BYTES

\* if current_lines and (current_tokens + line_tokens > MAX_TOKENS_PER_FILE
\*                       or current_size_bytes + line_bytes > MAX_FILE_SIZE_BYTES)
JsonlNeedSplit(current_lines, current_tokens, current_size_bytes, line_tokens, line_bytes) ==
    /\ current_lines # <<>>
    /\ \/ current_tokens + line_tokens > MAX_TOKENS_PER_FILE
       \/ current_size_bytes + line_bytes > MAX_FILE_SIZE_BYTES

\* One iteration of "for combo in combos".
JsonlLoop ==
    /\ pc = "jsonl"
    /\ jl_i <= Len(combos)
    /\ LET line_tokens == combos[jl_i].tokens
           line_bytes == combos[jl_i].bytes
           split == JsonlNeedSplit(jl_current_lines, jl_current_tokens,
                                   jl_current_size_bytes, line_tokens, line_bytes)
           filename == Filename(jl_current_file_index, JsonlExt(compress))
       IN /\ fs_writes' = IF split
                          THEN WriteFile(fs_writes, "jsonl", filename, jl_current_lines)
                          ELSE fs_writes
          /\ jl_written_files' = IF split THEN Append(jl_written_files, filename)
                                 ELSE jl_written_files
          /\ jl_current_file_index' = IF split THEN jl_current_file_index + 1
                                      ELSE jl_current_file_index
          /\ jl_current_lines' = Append(IF split THEN <<>> ELSE jl_current_lines, jl_i)
          /\ jl_current_tokens' = AfterReset(split, jl_current_tokens) + line_tokens
          /\ jl_current_size_bytes' =
                 AfterReset(split, jl_current_size_bytes) + line_bytes
    /\ jl_i' = jl_i + 1
    /\ UNCHANGED <<pc, combos, compress, all_written_files,
                   md_i, md_written_files, md_current_file_index, md_current_lines,
                   md_current_tokens, md_current_size_bytes>>

JsonlHasRemainder_Always(current_lines) == TRUE

\* if current_lines:   (after the loop)
JsonlHasRemainder(current_lines) == current_lines # <<>>

\* "Write remaining combos", return written_files; the caller extends
\* all_written_files with the jsonl/ names and goes on to the CSV writer.
JsonlReturn ==
    /\ pc = "jsonl"
    /\ jl_i > Len(combos)
    /\ LET filename == Filename(jl_current_file_index, JsonlExt(compress))
           rest == JsonlHasRemainder(jl_current_lines)
           written == IF rest THEN Append(jl_written_files, filename)
                      ELSE jl_written_files
       IN /\ fs_writes' = IF rest
                          THEN WriteFile(fs_writes, "jsonl", filename, jl_current_lines)
                          ELSE fs_writes
          /\ jl_written_files' = written
          /\ all_written_files' = all_written_files \o Prefixed("jsonl", written)
    /\ pc' = "csv"
    /\ UNCHANGED <<combos, compress, jl_i, jl_current_file_index, jl_current_lines,
                   jl_current_tokens, jl_current_size_bytes,
                   md_i, md_written_files, md_current_file_index, md_current_lines,
                   md_current_tokens, md_current_size_bytes>>

---------------------------------------------------------------------------
(* _write_csv_files and _write_card_index                                  *)

\* rows: one summary row per combo, in input order
CsvRows(cs) == [k \in 1..Len(cs) |-> k]

\* One DataFrame of all the rows, written to the single file combos<ext>.
CsvWrite ==
    /\ pc = "csv"
    /\ LET filename == [stem |-> "combos", num |-> 0, ext |-> CsvExt(compress)]
       IN /\ fs_writes' = WriteFile(fs_writes, "csv", filename, CsvRows(combos))
          /\ all_written_files' = all_written_files \o Prefixed("csv", <<filename>>)
    /\ pc' = "index"
    /\ UNCHANGED <<combos, compress,
                   jl_i, jl_written_files, jl_current_file_index, jl_current_lines,
                   jl_current_tokens, jl_current_size_bytes,
                   md_i, md_written_files, md_current_file_index, md_current_lines,
                   md_current_tokens, md_current_size_bytes>>

\* The card index goes to the single file combo_card_index<ext> in the root
\* of the output directory; its lines are per card, not per combo, and are
\* not followed here.
CardIndexWrite ==
    /\ pc = "index"
    /\ LET filename == [stem |-> "combo_card_index", num |-> 0,
                        ext |-> JsonlExt(compress)]
       IN /\ fs_writes' = WriteFile(fs_writes, ".", filename, <<>>)
          /\ all_written_files' = all_written_files \o Prefixed(".", <<filename>>)
    /\ pc' = "markdown"
    /\ UNCHANGED <<combos, compress,
                   jl_i, jl_written_files, jl_current_file_index, jl_current_lines,
                   jl_current_tokens, jl_current_size_bytes,
                   md_i, md_written_files, md_current_file_index, md_current_lines,
                   md_current_tokens, md_current_size_bytes>>

---------------------------------------------------------------------------
(* write_markdown_files                                                    *)

MdNeedSplit_TokensOnly(current_lines, current_tokens, current_size_bytes, combo_tokens, combo_bytes) ==
    /\ current_lines # <<>>
    /\ current_tokens + combo_tokens > MAX_TOKENS_PER_FILE

\* if current_lines and (current_tokens + combo_tokens > MAX_TOKENS_PER_FILE
\*                       or current_size_bytes + combo_bytes > MAX_FILE_SIZE_BYTES)
MdNeedSplit(current_lines, current_tokens, current_size_bytes, combo_tokens, combo_bytes) ==
    /\ current_lines # <<>>
    /\ \/ current_tokens + combo_tokens > MAX_TOKENS_PER_FILE
       \/ current_size_bytes + combo_bytes > MAX_FILE_SIZE_BYTES

\* One iteration of "for combo in combos".
MdLoop ==
    /\ pc = "markdown"
    /\ md_i <= Len(combos)
    /\ LET combo_tokens == combos[md_i].tokens
           combo_bytes == combos[md_i].bytes
           split == MdNeedSplit(md_current_lines, md_current_tokens,
                                md_current_size_bytes, combo_tokens, combo_bytes)
           filename == Filename(md_current_file_index, MdExt(compress))
       IN /\ fs_writes' = IF split
                          THEN WriteFile(fs_writes, "markdown", filename, md_current_lines)
                          ELSE fs_writes
          /\ md_written_files' = IF split THEN Append(md_written_files, filename)
                                 ELSE md_written_files
          /\ md_current_file_index' = IF split THEN md_current_file_index + 1
                                      ELSE md_current_file_index
          /\ md_current_lines' = Append(IF split THEN <<>> ELSE md_current_lines, md_i)
          /\ md_current_tokens' = AfterReset(split, md_current_tokens) + combo_tokens
          /\ md_current_size_bytes' =
                 AfterReset(split, md_current_size_bytes) + combo_bytes
    /\ md_i' = md_i + 1
    /\ UNCHANGED <<pc, combos, compress, all_written_files,
                   jl_i, jl_written_files, jl_current_file_index, jl_current_lines,
                   jl_current_tokens, jl_current_size_bytes>>

\* if current_lines:   (after the loop)
MdHasRemainder(current_lines) == current_lines # <<>>

\* "Write remaining combos", return written_files; the caller extends
\* all_written_files with the markdown/ names and returns.
MdReturn ==
    /\ pc = "markdown"
    /\ md_i > Len(combos)
    /\ LET filename == Filename(md_current_file_index, MdExt(compress))
           rest == MdHasRemainder(md_current_lines)
           written == IF rest THEN Append(md_written_files, filename)
                      ELSE md_written_files
       IN /\ fs_writes' = IF rest
                          THEN WriteFile(fs_writes, "markdown", filename, md_current_lines)
                          ELSE fs_writes
          /\ md_written_files' = written
          /\ all_written_files' = all_written_files \o Prefixed("markdown", written)
    /\ pc' = "done"
    /\ UNCHANGED <<combos, compress, md_i, md_current_file_index, md_current_lines,
                   md_current_tokens, md_current_size_bytes,
                   jl_i, jl_written_files, jl_current_file_index, jl_current_lines,
                   jl_current_tokens, jl_current_size_bytes>>

---------------------------------------------------------------------------
(* JSON values as the Python code sees them.                               *)

\* A JSON value: null, a string, an object (a set of key/value fields with
\* distinct keys) or a list.
JNull == [kind |-> "null", str |-> "", fields |-> {}, items |-> <<>>]
JStr(s) == [kind |-> "str", str |-> s, fields |-> {}, items |-> <<>>]
JObj(fs) == [kind |-> "obj", str |-> "", fields |-> fs, items |-> <<>>]
JList(xs) == [kind |-> "list", str |-> "", fields |-> {}, items |-> xs]

Field(k, v) == [k |-> k, v |-> v]

Keys(obj) == {f.k : f \in obj.fields}

\* d[key] on a dict that has the key
Get(obj, key) == (CHOOSE f \in obj.fields : f.k = key).v

\* The strings of the model that contain sub as a substring.
SubstringOf(sub, s) ==
    \/ sub = s
    \/ <<sub, s>> \in {<<"card", "discard">>, <<"feature", "featureless">>,
                       <<"Art Series", "Zendikar Rising Art Series">>}

\* Python's "key in x": key membership on a dict, substring test on a str,
\* element test on a list, TypeError on None.
PyIn(key, x) ==
    CASE x.kind = "obj" -> IF key \in Keys(x) THEN "True" ELSE "False"
      [] x.kind = "str" -> IF SubstringOf(key, x.str) THEN "True" ELSE "False"
      [] x.kind = "list" ->
            IF \E i \in 1..Len(x.items) : x.items[i] = JStr(key)
            THEN "True" ELSE "False"
      [] OTHER -> "TypeError"

\* Python's x[key] for a str key: the value on a dict; TypeError on a str
\* or a list (indices must be integers) and on None.
PySubscriptable(x) == x.kind = "obj"

---------------------------------------------------------------------------
(* parse_spellbook_combos: the body of "for combo in combos".              *)

\* The fields copied as they are (lines 119-134).
TopLevelFields ==
    {"id", "status", "identity", "manaNeeded", "manaValueNeeded", "description",
     "notes", "popularity", "bracketTag", "legalities", "prices", "variantCount"}

\* Optional passthrough fields (lines 162-164).
PassthroughFields == {"requires", "includes"}

CopyFields_All(combo, allowed) ==
    {f \in combo.fields : f.k \notin {"uses", "produces"}}

\* for field in [...]: if field in combo: normalized[field] = combo[field]
CopyFields(combo, allowed) == {f \in combo.fields : f.k \in allowed}

\* card_info: name, oracleId and typeLine of card, each if present
CardInfo(card) ==
    (IF "name" \in Keys(card) THEN {Field("name", Get(card, "name"))} ELSE {})
    \cup (IF "oracleId" \in Keys(card)
          THEN {Field("oracleId", Get(card, "oracleId"))} ELSE {})
    \cup (IF "typeLine" \in Keys(card)
          THEN {Field("typeLine", Get(card, "typeLine"))} ELSE {})

KeepCardInfo_Always(card_info) == TRUE

\* if card_info:  # Only add if we got at least one field
KeepCardInfo(card_info) == card_info # {}

\* The body of "for item in combo['uses']" on one item: what it appends,
\* or the TypeError it raises.
UsesItem(item) ==
    LET has == PyIn("card", item)
    IN IF has = "TypeError" THEN [raised |-> TRUE, out |-> <<>>]
       ELSE IF has = "False" THEN [raised |-> FALSE, out |-> <<>>]
       ELSE IF ~PySubscriptable(item) THEN [raised |-> TRUE, out |-> <<>>]
       ELSE IF Get(item, "card").kind # "obj" THEN [raised |-> FALSE, out |-> <<>>]
       ELSE LET card_info == CardInfo(Get(item, "card"))
            IN IF KeepCardInfo(card_info)
               THEN [raised |-> FALSE, out |-> <<JObj(card_info)>>]
               ELSE [raised |-> FALSE, out |-> <<>>]

KeepFeature_Always(feature) == TRUE

\* if "name" in feature:
KeepFeature(feature) == "name" \in Keys(feature)

\* The body of "for item in combo['produces']" on one item.
ProducesItem(item) ==
    LET has == PyIn("feature", item)
    IN IF has = "TypeError" THEN [raised |-> TRUE, out |-> <<>>]
       ELSE IF has = "False" THEN [raised |-> FALSE, out |-> <<>>]
       ELSE IF ~PySubscriptable(item) THEN [raised |-> TRUE, out |-> <<>>]
       ELSE IF Get(item, "feature").kind # "obj" THEN [raised |-> FALSE, out |-> <<>>]
       ELSE LET feature == Get(item, "feature")
            IN IF KeepFeature(feature)
               THEN [raised |-> FALSE,
                     out |-> <<JObj({Field("name", Get(feature, "name"))})>>]
               ELSE [raised |-> FALSE, out |-> <<>>]

\* The uses loop from item i on, with the list built so far: the finished
\* list, or raised at the first item that raises.
RECURSIVE UsesLoop(_, _, _)
UsesLoop(items, i, acc) ==
    IF i > Len(items) THEN [raised |-> FALSE, out |-> acc]
    ELSE LET r == UsesItem(items[i])
         IN IF r.raised THEN [raised |-> TRUE, out |-> acc]
            ELSE UsesLoop(items, i + 1, acc \o r.out)

RECURSIVE ProducesLoop(_, _, _)
ProducesLoop(items, i, acc) ==
    IF i > Len(items) THEN [raised |-> FALSE, out |-> acc]
    ELSE LET r == ProducesItem(items[i])
         IN IF r.raised THEN [raised |-> TRUE, out |-> acc]
            ELSE ProducesLoop(items, i + 1, acc \o r.out)

\* if key in combo and isinstance(combo[key], list)
HasList(combo, key) == key \in Keys(combo) /\ Get(combo, key).kind = "list"

\* The loop body on one combo: the normalized dict, or raised.
Normalize(combo) ==
    LET top == CopyFields(combo, TopLevelFields)
        uses == IF HasList(combo, "uses")
                THEN UsesLoop(Get(combo, "uses").items, 1, <<>>)
                ELSE [raised |-> FALSE, out |-> <<>>]
        produces == IF HasList(combo, "produces")
                    THEN ProducesLoop(Get(combo, "produces").items, 1, <<>>)
                    ELSE [raised |-> FALSE, out |-> <<>>]
        pass == CopyFields(combo, PassthroughFields)
    IN [raised |-> uses.raised \/ produces.raised,
        value |-> JObj(top
                       \cup (IF HasList(combo, "uses")
                             THEN {Field("uses", JList(uses.out))} ELSE {})
                       \cup (IF HasList(combo, "produces")
                             THEN {Field("produces", JList(produces.out))} ELSE {})
                       \cup pass)]

\* One combo goes through the loop body and is yielded, unless the body
\* raises: the exception then leaves the generator.
ParseYield ==
    /\ parse_pc = "start"
    /\ ~Normalize(raw_combo).raised
    /\ normalized' = Normalize(raw_combo).value
    /\ parse_pc' = "yielded"
    /\ UNCHANGED raw_combo

ParseRaise ==
    /\ parse_pc = "start"
    /\ Normalize(raw_combo).raised
    /\ parse_pc' = "raised"
    /\ UNCHANGED <<raw_combo, normalized>>

---------------------------------------------------------------------------
(* The raw combos the parser is run on.                                    *)

\* Top-level keys a raw combo may carry besides uses and produces: the
\* allow-listed ones and two the normalizer must drop.
RawScalarKeys == TopLevelFields \cup PassthroughFields \cup {"of", "spoiler"}

\* The value under a key tells which key it came from.
RawField(k) == Field(k, JStr(k))

RawObj(S) == JObj({RawField(k) : k \in S})

RawCards ==
    {RawObj(S) : S \in SUBSET {"name", "oracleId", "typeLine"}}
    \cup {RawObj({"id"}), RawObj({"id", "name"})}

RawUsesItems ==
    {JNull, JStr("x"), JStr("discard"), JObj({}), JObj({Field("card", JNull)})}
    \cup {JObj({Field("card", c)}) : c \in RawCards}
    \cup {JObj({Field("card", RawObj({"name"})), RawField("quantity")})}

RawFeatures == {RawObj(S) : S \in SUBSET {"name", "id"}}

RawProducesItems ==
    {JNull, JStr("x"), JStr("featureless"), JObj({}), JObj({Field("feature", JNull)})}
    \cup {JObj({Field("feature", f)}) : f \in RawFeatures}

\* The ways key is present with a list of n items, or, for n = 0, absent or
\* null as well.
RawListFields(key, items, n) ==
    {{Field(key, JList(s))} : s \in [1..n -> items]}
    \cup (IF n = 0 THEN {{}, {Field(key, JNull)}} ELSE {})

RawScalarFields(n) ==
    {{RawField(k) : k \in S} : S \in {T \in SUBSET RawScalarKeys : Cardinality(T) = n}}

RawCombos ==
    UNION {
        {JObj(sc \cup u \cup p) :
            sc \in RawScalarFields(w[1]),
            u \in RawListFields("uses", RawUsesItems, w[2]),
            p \in RawListFields("produces", RawProducesItems, w[3])} :
        w \in {x \in (0..MaxParts) \X (0..MaxParts) \X (0..MaxParts) :
                  x[1] + x[2] + x[3] <= MaxParts}}

---------------------------------------------------------------------------
(* _best_price_from_printing and build_oracle_price_index (build.py).      *)
(* Money is counted in cents; a median of an even number of prices may     *)
(* fall on a half cent and is carried doubled (in half cents).             *)

\* What prices.get(price_key) returns: None (key absent or null), a string
\* float() rejects, or a decimal string of so many cents.
NoPrice == [s |-> "None", cents |-> 0]
InvalidPrice == [s |-> "invalid", cents |-> 0]
DecimalPrice(c) == [s |-> "decimal", cents |-> c]

\* price_map: the price keys in the order they are read, with their finish
price_map ==
    <<[price_key |-> "usd", finish |-> "nonfoil"],
      [price_key |-> "usd_foil", finish |-> "foil"],
      [price_key |-> "usd_etched", finish |-> "etched"]>>

PriceOf_InvalidAsZero(price_str) == IF price_str.s = "decimal" THEN <<price_str.cents>> ELSE <<0>>

\* if price_str: try float(price_str) ... except (ValueError, TypeError): pass
PriceOf(price_str) ==
    IF price_str.s = "None" THEN <<>>
    ELSE IF price_str.s = "decimal" THEN <<price_str.cents>>
    ELSE <<>>

\* The (finish, price) pairs of one printing, in price_map order.
RECURSIVE BestPriceFrom(_, _)
BestPriceFrom(prices, k) ==
    IF k > Len(price_map) THEN <<>>
    ELSE LET val == PriceOf(prices[price_map[k].price_key])
         IN (IF val = <<>> THEN <<>>
             ELSE <<[finish |-> price_map[k].finish, price_val |-> val[1]]>>)
            \o BestPriceFrom(prices, k + 1)

_best_price_from_printing(prices) == BestPriceFrom(prices, 1)

\* if not prices: a prices dict without any key
NoPrices(prices) == \A k \in 1..Len(price_map) : prices[price_map[k].price_key].s = "None"

\* The tuples one card adds to oracle_prices[oracle_id].
CardTuples(card) ==
    LET found == _best_price_from_printing(card.prices)
    IN [k \in 1..Len(found) |->
           [price |-> found[k].price_val, finish |-> found[k].finish,
            set |-> card.set, collector_number |-> card.collector_number]]

\* The first loop: oracle_prices after the cards from position i on, given
\* oracle_prices before them.
RECURSIVE CollectPrices(_, _, _)
CollectPrices(cards, i, oracle_prices) ==
    IF i > Len(cards) THEN oracle_prices
    ELSE LET card == cards[i]
             oracle_id == card.oracle_id
         IN IF oracle_id = "" \/ NoPrices(card.prices) \/ CardTuples(card) = <<>>
            THEN CollectPrices(cards, i + 1, oracle_prices)
            ELSE CollectPrices(cards, i + 1,
                     [o \in DOMAIN oracle_prices \cup {oracle_id} |->
                         IF o = oracle_id
                         THEN (IF o \in DOMAIN oracle_prices THEN oracle_prices[o]
                               ELSE <<>>) \o CardTuples(card)
                         ELSE oracle_prices[o]])

\* Insert x into the sorted list after every element whose price is not
\* greater: list.sort is stable.
RECURSIVE InsertByPrice(_, _)
InsertByPrice(sorted, x) ==
    IF sorted = <<>> THEN <<x>>
    ELSE IF Head(sorted).price <= x.price
         THEN <<Head(sorted)>> \o InsertByPrice(Tail(sorted), x)
         ELSE <<x>> \o sorted

SortByPrice_Unsorted(price_list) == price_list

\* price_list.sort(key=lambda x: x[0])
RECURSIVE SortByPrice(_)
SortByPrice(price_list) ==
    IF price_list = <<>> THEN <<>>
    ELSE InsertByPrice(SortByPrice(SubSeq(price_list, 1, Len(price_list) - 1)),
                       price_list[Len(price_list)])

Median2_UpperMiddle(price_values) == 2 * price_values[(Len(price_values) \div 2) + 1]

\* statistics.median on sorted data, doubled: the middle value, or the mean
\* of the two middle values when the count is even.
Median2(price_values) ==
    LET n == Len(price_values)
    IN IF n % 2 = 1 THEN 2 * price_values[(n \div 2) + 1]
       ELSE price_values[n \div 2] + price_values[(n \div 2) + 1]

\* f"{x:.2f}" of a price given in half cents: the cents when x is a whole
\* number of cents; on a half cent the digit printed depends on the binary
\* value of the float, which lies just below or just above the tie.
Format2(half_cents) ==
    IF half_cents % 2 = 0 THEN {half_cents \div 2}
    ELSE {(half_cents - 1) \div 2, (half_cents + 1) \div 2}

\* str.upper() on the set codes of the model
Upper(set_code) ==
    CASE set_code = "cmr" -> "CMR"
      [] set_code = "m21" -> "M21"
      [] set_code = "lea" -> "LEA"
      [] set_code = "znr" -> "ZNR"
      [] OTHER -> set_code

HasSeveralPrices_Always(price_values) == TRUE

\* if len(price_values) > 1: the range and median clauses of price_summary
HasSeveralPrices(price_values) == Len(price_values) > 1

\* The index entry of one oracle_id from its price_list, with the median
\* printed as median_cents.
PriceEntry(price_list, median_cents) ==
    LET sorted == SortByPrice(price_list)
        price_values == [k \in 1..Len(sorted) |-> sorted[k].price]
        lowest == sorted[1]
        highest_price == price_values[Len(price_values)]
    IN [lowest_price_usd |-> lowest.price,
        lowest_price_finish |-> lowest.finish,
        lowest_price_set |-> lowest.set,
        lowest_price_collector |-> lowest.collector_number,
        median_price_usd |-> median_cents,
        highest_price_usd |-> highest_price,
        price_summary |->
            [lowest |-> lowest.price,
             cheapest |-> <<Upper(lowest.set), lowest.collector_number, lowest.finish>>,
             range |-> IF HasSeveralPrices(price_values)
                       THEN <<lowest.price, highest_price>> ELSE <<>>,
             median |-> IF HasSeveralPrices(price_values)
                        THEN <<median_cents>> ELSE <<>>]]

\* The median of one oracle_id's prices, doubled.
MedianOf(price_list) ==
    LET sorted == SortByPrice(price_list)
    IN Median2([k \in 1..Len(sorted) |-> sorted[k].price])

\* The indexes build_oracle_price_index may return on cards: one entry per
\* oracle_id of oracle_prices.
PriceIndexes(cards) ==
    LET oracle_prices == CollectPrices(cards, 1, <<>>)
        printable == UNION {Format2(MedianOf(oracle_prices[o])) : o \in DOMAIN oracle_prices}
    IN {[o \in DOMAIN oracle_prices |-> PriceEntry(oracle_prices[o], printed[o])] :
           printed \in {f \in [DOMAIN oracle_prices -> printable] :
                           \A o \in DOMAIN oracle_prices :
                               f[o] \in Format2(MedianOf(oracle_prices[o]))}}

BuildOraclePriceIndex ==
    /\ price_pc = "start"
    /\ price_index' \in PriceIndexes(default_cards)
    /\ price_pc' = "done"
    /\ UNCHANGED default_cards

---------------------------------------------------------------------------
(* The default_cards lists the price index is built from.                  *)

\* The prices a printing quotes for each finish, in cents.
UsdCents == {1, 2, 3}

FoilCents == {1, 3}

EtchedCents == {3}

\* The prices dicts of a printing: every finish quoted or not, and usd
\* possibly a string that is no number.
PricesDicts ==
    [usd : {NoPrice, InvalidPrice} \cup {DecimalPrice(c) : c \in UsdCents},
     usd_foil : {NoPrice} \cup {DecimalPrice(c) : c \in FoilCents},
     usd_etched : {NoPrice} \cup {DecimalPrice(c) : c \in EtchedCents}]

\* The i-th printing of a list has the i-th set code and collector number i.
SetCodes == <<"cmr", "m21", "lea", "znr">>

\* The oracle ids of a list of n printings; the first one is "o1".
OracleIdsOf(n) == {o \in [1..n -> {"o1", "o2"}] : n = 0 \/ o[1] = "o1"}

DefaultCardsLists ==
    UNION {
        {[i \in 1..n |-> [oracle_id |-> o[i], set |-> SetCodes[i],
                          collector_number |-> i, prices |-> p[i]]] :
            o \in OracleIdsOf(n), p \in [1..n -> PricesDicts]} :
        n \in 0..MaxPrintings}

---------------------------------------------------------------------------
(* filter_playable_cards (build.py).                                       *)

\* d.get(key, default)
DictGet(d, key, default) == IF key \in Keys(d) THEN Get(d, key) ELSE default

\* The truth value of a JSON value: None and "" are false.
Truthy(v) ==
    CASE v.kind = "null" -> FALSE
      [] v.kind = "str" -> v.str # ""
      [] v.kind = "list" -> v.items # <<>>
      [] OTHER -> v.fields # {}

ExcludedLayouts_NoToken == {"art_series", "double_faced_token", "emblem"}

\* {"art_series", "token", "double_faced_token", "emblem"}
ExcludedLayouts == {"art_series", "token", "double_faced_token", "emblem"}

\* layout = card.get("layout", ""); layout in {...}
LayoutExcluded(card) ==
    LET layout == DictGet(card, "layout", JStr(""))
    IN layout.kind = "str" /\ layout.str \in ExcludedLayouts

SetTypeOf_FailClosed(card) == DictGet(card, "set_type", JStr("memorabilia"))

\* set_type = card.get("set_type", "")
SetTypeOf(card) == DictGet(card, "set_type", JStr(""))

\* set_type == "memorabilia"
SetTypeExcluded(card) == SetTypeOf(card) = JStr("memorabilia")

\* "Art Series" in set_name: "True", "False" or "TypeError"
SetNameTest(card) == PyIn("Art Series", DictGet(card, "set_name", JStr("")))

\* not oracle_text and not type_line
NoText(card) ==
    /\ ~Truthy(DictGet(card, "oracle_text", JStr("")))
    /\ ~Truthy(DictGet(card, "type_line", JStr("")))

\* One iteration of the loop on card: "continue", "append" or "TypeError".
FilterCard(card) ==
    IF LayoutExcluded(card) THEN "continue"
    ELSE IF SetTypeExcluded(card) THEN "continue"
    ELSE IF SetNameTest(card) = "TypeError" THEN "TypeError"
    ELSE IF SetNameTest(card) = "True" THEN "continue"
    ELSE IF NoText(card) THEN "continue"
    ELSE "append"

\* The loop from position i on with playable_cards equal to acc.
RECURSIVE FilterLoop(_, _, _)
FilterLoop(cards, i, acc) ==
    IF i > Len(cards) THEN [raised |-> FALSE, value |-> acc]
    ELSE IF FilterCard(cards[i]) = "TypeError" THEN [raised |-> TRUE, value |-> acc]
    ELSE FilterLoop(cards, i + 1,
             IF FilterCard(cards[i]) = "append" THEN Append(acc, cards[i]) ELSE acc)

FilterReturn ==
    /\ filter_pc = "start"
    /\ ~FilterLoop(filter_cards, 1, <<>>).raised
    /\ playable_cards' = FilterLoop(filter_cards, 1, <<>>).value
    /\ filter_pc' = "returned"
    /\ UNCHANGED filter_cards

FilterRaise ==
    /\ filter_pc = "start"
    /\ FilterLoop(filter_cards, 1, <<>>).raised
    /\ filter_pc' = "raised"
    /\ UNCHANGED <<filter_cards, playable_cards>>

\* The cards given to the filter: every field absent, null or a string.
OptionalField(key, values) == {{}} \cup {{Field(key, v)} : v \in values}

FilterInputCards ==
    {JObj(l \cup st \cup sn \cup ot \cup tl) :
        l \in OptionalField("layout", {JNull, JStr("normal"), JStr("art_series"), JStr("token"), JStr("double_faced_token"), JStr("emblem")}),
        st \in OptionalField("set_type", {JNull, JStr("expansion"), JStr("memorabilia")}),
        sn \in OptionalField("set_name", {JNull, JStr("Alpha"), JStr("Art Series"), JStr("Zendikar Rising Art Series")}),
        ot \in OptionalField("oracle_text", {JNull, JStr(""), JStr("Some text.")}),
        tl \in OptionalField("type_line", {JNull, JStr(""), JStr("Creature")})}

---------------------------------------------------------------------------
(* colors_str (build.py).                                                  *)

\* WUBRG = ["W", "U", "B", "R", "G"]
WUBRG == <<"W", "U", "B", "R", "G">>

\* set(lst or []): None and the empty list give the empty set
SetOf(lst) ==
    IF lst.kind = "list" THEN {lst.items[i].str : i \in 1..Len(lst.items)} ELSE {}

colors_str_InputOrder(lst) == IF lst.kind = "list" THEN [i \in 1..Len(lst.items) |-> lst.items[i].str] ELSE <<>>

\* "".join(c for c in WUBRG if c in s)
colors_str(lst) ==
    LET s == SetOf(lst)
        test(c) == c \in s
    IN SelectSeq(WUBRG, test)

ColorsStr ==
    /\ colors_pc = "start"
    /\ colors_result' = colors_str(colors_lst)
    /\ colors_pc' = "returned"
    /\ UNCHANGED colors_lst

\* The color arrays: None, or a list of up to MaxColors color symbols.
ColorArrays ==
    {JNull} \cup
    UNION {{JList([i \in 1..n |-> JStr(WUBRG[f[i]])]) : f \in [1..n -> 1..Len(WUBRG)]} :
           n \in 0..MaxColors}

---------------------------------------------------------------------------
(* trim_and_dedupe_cards (build.py).  A card and a record are functions    *)
(* from the keys they have to values; a DataFrame is the list of its rows, *)
(* every row a function on all the columns.                                *)

\* The value pandas puts into a cell whose row had no such key.
NaN == "NaN"

\* The seven price fields (lines 323-331).
PriceFields ==
    {"lowest_price_usd", "lowest_price_finish", "lowest_price_set",
     "lowest_price_collector", "median_price_usd", "highest_price_usd",
     "price_summary"}

\* fields_to_keep (lines 254-272)
fields_to_keep ==
    {"oracle_id", "name", "mana_cost", "cmc", "type_line", "oracle_text",
     "reserved", "set", "set_name", "rarity"} \cup PriceFields

\* The formats of the legal_<fmt> columns (lines 299-307).
LegalFormats ==
    {"legal_standard", "legal_pioneer", "legal_modern", "legal_legacy",
     "legal_vintage", "legal_pauper", "legal_commander"}

\* card.get("colors", []), the list standing for its compact JSON text
ColorsOf(card) == IF "colors" \in DOMAIN card THEN card["colors"] ELSE <<>>

\* The columns computed from colors, color_identity, keywords and
\* legalities (lines 281-309); the cards of the model have colors or not,
\* and none of the other three.
DerivedFields(card) ==
    [c \in {"colors", "colors_str", "color_identity", "color_identity_str",
            "keywords", "keywords_joined", "legalities", "legal_summary"}
           \cup LegalFormats |->
        CASE c = "colors" -> ColorsOf(card)
          [] c = "colors_str" -> colors_str(JList([i \in 1..Len(ColorsOf(card)) |-> JStr(ColorsOf(card)[i])]))
          [] c \in {"color_identity", "keywords"} -> <<>>
          [] c = "color_identity_str" -> <<>>
          [] c = "legalities" -> "{}"
          [] OTHER -> ""]

\* trimmed_card of one card (lines 277-309)
TrimmedCard(card) ==
    LET kept == DOMAIN card \cap fields_to_keep
        derived == DerivedFields(card)
    IN [c \in kept \cup DOMAIN derived |->
           IF c \in DOMAIN derived THEN derived[c] ELSE card[c]]

\* pd.DataFrame(trimmed_cards): the columns are the keys of all the
\* records, a missing cell is NaN.
DataFrame(records) ==
    LET columns == UNION {DOMAIN records[i] : i \in 1..Len(records)}
    IN [i \in 1..Len(records) |->
           [c \in columns |-> IF c \in DOMAIN records[i] THEN records[i][c] ELSE NaN]]

ColumnsOf(df) == IF df = <<>> THEN {} ELSE DOMAIN df[1]

\* df.drop_duplicates(subset=["oracle_id"], keep="first") from row i on:
\* a row is dropped when an earlier row has an equal oracle_id, and pandas
\* takes two missing values for equal.
RECURSIVE DropDuplicates(_, _, _)
DropDuplicates(df, i, acc) ==
    IF i > Len(df) THEN acc
    ELSE DropDuplicates(df, i + 1,
             IF \E j \in 1..Len(acc) : acc[j]["oracle_id"] = df[i]["oracle_id"]
             THEN acc ELSE Append(acc, df[i]))

\* if "oracle_id" in df.columns: df = df.drop_duplicates(...)
Deduplicated(df) ==
    IF "oracle_id" \in ColumnsOf(df) THEN DropDuplicates(df, 1, <<>>) ELSE df

\* if price_index and "oracle_id" in df.columns: None and {} are false
MergesPrices(index_arg, df) ==
    /\ index_arg.supplied
    /\ DOMAIN index_arg.index # {}
    /\ "oracle_id" \in ColumnsOf(df)

\* The row after the price merge (lines 323-340): the price columns that
\* are not there yet are added as "", then the entry of the row's
\* oracle_id, if it is not empty and in the index, is written over them.
WithPrices(row, index) ==
    LET oracle_id == IF "oracle_id" \in DOMAIN row THEN row["oracle_id"] ELSE ""
    IN [c \in DOMAIN row \cup PriceFields |->
           IF oracle_id # "" /\ oracle_id \in DOMAIN index /\ c \in DOMAIN index[oracle_id]
           THEN index[oracle_id][c]
           ELSE IF c \in DOMAIN row THEN row[c] ELSE ""]

\* trim_and_dedupe_cards(cards, price_index), index_arg being price_index
trim_and_dedupe_cards(cards, index_arg) ==
    LET trimmed_cards == [i \in 1..Len(cards) |-> TrimmedCard(cards[i])]
        df == Deduplicated(DataFrame(trimmed_cards))
    IN IF MergesPrices(index_arg, df)
       THEN [i \in 1..Len(df) |-> WithPrices(df[i], index_arg.index)]
       ELSE df

TrimAndDedupe ==
    /\ trim_pc = "start"
    /\ trim_result' = trim_and_dedupe_cards(trim_cards, trim_price_index)
    /\ trim_pc' = "returned"
    /\ UNCHANGED <<trim_cards, trim_price_index>>

\* The cards given to trim_and_dedupe_cards: the i-th one has the i-th
\* name, an oracle_id or none, colors or none, and a power the function
\* does not keep.
CardNames == <<"n1", "n2", "n3", "n4", "n5">>

TrimInputCard(i, oracle_id, colors) ==
    [k \in {"name", "power"} \cup (IF oracle_id = "" THEN {} ELSE {"oracle_id"})
                              \cup (IF colors = <<>> THEN {} ELSE {"colors"}) |->
        CASE k = "name" -> CardNames[i]
          [] k = "power" -> "1"
          [] k = "oracle_id" -> oracle_id
          [] OTHER -> colors]

\* "" and <<>> stand for a card without oracle_id and without colors.
TrimInputCards(i) ==
    {TrimInputCard(i, o, c) : o \in {"", "o1", "o2"}, c \in {<<>>, <<"G", "R">>}}

TrimCardsLists ==
    UNION {{cs \in [1..n -> UNION {TrimInputCards(i) : i \in 1..n}] :
               \A i \in 1..n : cs[i] \in TrimInputCards(i)} : n \in 0..MaxCards}

\* The entry of an oracle id in a price index: every field names the id.
TrimPriceEntry(o) == [f \in PriceFields |-> o]

\* The price_index arguments: None, or an index of some of "o1" and "o3".
TrimPriceIndexes ==
    {[supplied |-> FALSE, index |-> <<>>]} \cup
    {[supplied |-> TRUE, index |-> [o \in S |-> TrimPriceEntry(o)]] : S \in SUBSET {"o1", "o3"}}

---------------------------------------------------------------------------
(* merge_dfc_oracle_text (build.py).                                       *)

CardCopy_Alias(card) == [aliased |-> TRUE, value |-> card]

\* card_copy = card.copy(): a new dict with the same keys and values
CardCopy(card) == [aliased |-> FALSE, value |-> card]

\* d[key] = value
DictSet(d, key, value) == JObj({f \in d.fields : f.k # key} \cup {Field(key, value)})

\* len(x) raises TypeError on None
PySized(x) == x.kind # "null"

\* len(x) of a sized value
PyLen(x) ==
    CASE x.kind = "list" -> Len(x.items)
      [] x.kind = "obj" -> Cardinality(x.fields)
      [] OTHER -> Len(x.str)

\* [face.get("oracle_text", "") for face in faces if face.get("oracle_text")]
RECURSIVE OracleTexts(_, _)
OracleTexts(faces, i) ==
    IF i > Len(faces) THEN <<>>
    ELSE (IF Truthy(DictGet(faces[i], "oracle_text", JNull))
          THEN <<DictGet(faces[i], "oracle_text", JStr("")).str>> ELSE <<>>)
         \o OracleTexts(faces, i + 1)

\* sep.join(texts)
RECURSIVE Join(_, _)
Join(sep, texts) ==
    IF texts = <<>> THEN ""
    ELSE IF Len(texts) = 1 THEN texts[1]
    ELSE texts[1] \o sep \o Join(sep, Tail(texts))

\* "card_faces" in card and len(card["card_faces"]) > 0: "True", "False"
\* or "TypeError"
HasFaces(card) ==
    IF "card_faces" \notin Keys(card) THEN "False"
    ELSE IF ~PySized(Get(card, "card_faces")) THEN "TypeError"
    ELSE IF PyLen(Get(card, "card_faces")) > 0 THEN "True" ELSE "False"

\* One iteration of the loop on card: the dict appended to processed_cards
\* and the card's own dict afterwards.
MergeCard(card) ==
    LET card_copy == CardCopy(card)
        oracle_texts == IF HasFaces(card) = "True"
                        THEN OracleTexts(Get(card, "card_faces").items, 1) ELSE <<>>
        merged == IF oracle_texts # <<>>
                  THEN DictSet(card_copy.value, "oracle_text", JStr(Join(" // ", oracle_texts)))
                  ELSE card_copy.value
    IN [appended |-> merged, card |-> IF card_copy.aliased THEN merged ELSE card]

MergeRaises(cards) == \E i \in 1..Len(cards) : HasFaces(cards[i]) = "TypeError"

MergeReturn ==
    /\ merge_pc = "start"
    /\ ~MergeRaises(merge_cards)
    /\ processed_cards' = [i \in 1..Len(merge_cards) |-> MergeCard(merge_cards[i]).appended]
    /\ merge_cards' = [i \in 1..Len(merge_cards) |-> MergeCard(merge_cards[i]).card]
    /\ merge_pc' = "returned"

MergeRaise ==
    /\ merge_pc = "start"
    /\ MergeRaises(merge_cards)
    /\ merge_pc' = "raised"
    /\ UNCHANGED <<merge_cards, processed_cards>>

\* The faces: a name, a type_line, and an oracle_text or none.
MergeFaces ==
    {JObj({Field("name", JStr("face")), Field("type_line", JStr("Face"))} \cup t) :
        t \in OptionalField("oracle_text", {JStr(""), JStr("A"), JStr("B")})}

\* The card_faces of a card: absent, null, or a list of up to MaxFaces faces.
MergeCardFaces ==
    {{}, {Field("card_faces", JNull)}}
    \cup UNION {{{Field("card_faces", JList(fs))} : fs \in [1..n -> MergeFaces]} : n \in 0..MaxFaces}

MergeInputCards ==
    {JObj({Field("name", JStr("card"))} \cup ot \cup tl \cup cf) :
        ot \in OptionalField("oracle_text", {JStr(""), JStr("T")}),
        tl \in OptionalField("type_line", {JStr("Creature")}),
        cf \in MergeCardFaces}

---------------------------------------------------------------------------
(* build() of build.py and build_spellbook() of build_spellbook.py: one    *)
(* run of either pipeline.  A card of the run is the first character of    *)
(* its name and whether filter_playable_cards keeps it.                    *)

\* The code point of the first characters of the model.
Ascii(c) ==
    CASE c = "1" -> 49 [] c = "H" -> 72 [] c = "a" -> 97 [] c = "b" -> 98
      [] c = "f" -> 102 [] c = "g" -> 103 [] c = "h" -> 104 [] c = "n" -> 110
      [] c = "o" -> 111 [] c = "p" -> 112 [] OTHER -> 122

\* str.lower() on the first characters of the model
Lower(c) == IF c = "H" THEN "h" ELSE c

\* df.sort_values("name"): insertion of x into a list sorted by name
RECURSIVE InsertByName(_, _)
InsertByName(sorted, x) ==
    IF sorted = <<>> THEN <<x>>
    ELSE IF Ascii(Head(sorted).name) <= Ascii(x.name)
         THEN <<Head(sorted)>> \o InsertByName(Tail(sorted), x)
         ELSE <<x>> \o sorted

RECURSIVE SortByName(_)
SortByName(cards) ==
    IF cards = <<>> THEN <<>>
    ELSE InsertByName(SortByName(SubSeq(cards, 1, Len(cards) - 1)), cards[Len(cards)])

\* The alphabetical ranges of the split (build.py lines 371-375).
ranges ==
    <<[start |-> "a", end |-> "f", filename |-> "scryfall_oracle_trimmed_a-f.csv.gz"],
      [start |-> "g", end |-> "n", filename |-> "scryfall_oracle_trimmed_g-n.csv.gz"],
      [start |-> "o", end |-> "z", filename |-> "scryfall_oracle_trimmed_o-z.csv.gz"]>>

\* df["name"].str.lower().str[0].between(start, end)
InRange(card, r) ==
    /\ Ascii(r.start) <= Ascii(Lower(card.name))
    /\ Ascii(Lower(card.name)) <= Ascii(r.end)

\* The rows of df within the k-th range.
SubsetDf(df, k) ==
    LET mask(card) == InRange(card, ranges[k])
    IN SelectSeq(df, mask)

\* The files the split writes from the k-th range on: only the ranges that
\* have rows.
RECURSIVE SplitWrites(_, _)
SplitWrites(df, k) ==
    IF k > Len(ranges) THEN <<>>
    ELSE (IF Len(SubsetDf(df, k)) > 0
          THEN <<[name |-> ranges[k].filename, rows |-> SubsetDf(df, k)]>> ELSE <<>>)
         \o SplitWrites(df, k + 1)

\* The writes of write_output_files of build.py after the temporary file:
\* the split files when the temporary file is over MAX_FILE_SIZE_MB, the
\* single file otherwise.
CardFileWrites(df, over) ==
    IF over THEN SplitWrites(df, 1)
    ELSE << [name |-> "scryfall_oracle_trimmed.csv.gz", rows |-> df] >>

ExitStatus_AlwaysZero(raised) == 0

\* The exit status of the process: 1 when build() ends by an exception
\* nothing catches or build_spellbook() by raise SystemExit(1), 0 when the
\* function returns.
ExitStatus(raised) == IF raised THEN 1 ELSE 0

\* No manifest.json in the directory.
NoManifest == [exists |-> FALSE, build_date |-> "", files |-> <<>>, total_files |-> 0]

ManifestFiles_Cumulative(files, earlier) == earlier \o files

\* "files": files, json.dump into the file opened with "w": what the file
\* held earlier is gone
ManifestFiles(files, earlier) == files

\* manifest of write_manifest (build.py lines 416-420)
Manifest(files, earlier) ==
    [exists |-> TRUE, build_date |-> "now",
     files |-> ManifestFiles(files, earlier),
     total_files |-> Len(ManifestFiles(files, earlier))]

\* The writer's variables of build_spellbook.py apart from pc and combos.
writerLocals ==
    <<compress, fs_writes, all_written_files,
      jl_i, jl_written_files, jl_current_file_index, jl_current_lines,
      jl_current_tokens, jl_current_size_bytes,
      md_i, md_written_files, md_current_file_index, md_current_lines,
      md_current_tokens, md_current_size_bytes>>

buildLocals == <<run_cards, card_writes, written_files, data_dir, manifest_json>>

\* The cards a download gives to a run of build().
RunCards == [name : {"1", "b", "H", "p"}, playable : BOOLEAN]

RunCardsLists == UNION {[1..n -> RunCards] : n \in 0..MaxRunCards}

\* The combos a parse gives to a run of build_spellbook().
RunCombosLists == UNION {[1..n -> UnitSizes] : n \in 0..MaxRunCards}

\* cards = download_scryfall_data(ORACLE_CARDS_TYPE)
BuildDownloadOracle ==
    /\ run_kind = "build" /\ stage = "download_oracle"
    /\ run_cards' \in RunCardsLists
    /\ stage' = "filter_playable_cards"
    /\ UNCHANGED <<run_kind, card_writes, written_files, data_dir, manifest_json,
                   manifest_log, exit_code, writerVars>>

\* requests raises in download_scryfall_data (either call): build() does
\* not catch it and the process ends with a traceback.
BuildDownloadFails ==
    /\ run_kind = "build" /\ stage \in {"download_oracle", "download_default"}
    /\ stage' = "failed"
    /\ exit_code' = ExitStatus(TRUE)
    /\ UNCHANGED <<run_kind, buildLocals, manifest_log, writerVars>>

\* cards = filter_playable_cards(cards)
BuildFilter ==
    /\ run_kind = "build" /\ stage = "filter_playable_cards"
    /\ LET keep(card) == card.playable
       IN run_cards' = SelectSeq(run_cards, keep)
    /\ stage' = "merge_dfc_oracle_text"
    /\ UNCHANGED <<run_kind, card_writes, written_files, data_dir, manifest_json,
                   manifest_log, exit_code, writerVars>>

\* cards = merge_dfc_oracle_text(cards): names and count stay
BuildMerge ==
    /\ run_kind = "build" /\ stage = "merge_dfc_oracle_text"
    /\ stage' = "download_default"
    /\ UNCHANGED <<run_kind, buildLocals, manifest_log, exit_code, writerVars>>

\* default_cards = download_scryfall_data(DEFAULT_CARDS_TYPE)
BuildDownloadDefault ==
    /\ run_kind = "build" /\ stage = "download_default"
    /\ stage' = "build_oracle_price_index"
    /\ UNCHANGED <<run_kind, buildLocals, manifest_log, exit_code, writerVars>>

\* price_index = build_oracle_price_index(default_cards)
BuildPriceIndex ==
    /\ run_kind = "build" /\ stage = "build_oracle_price_index"
    /\ stage' = "trim_and_dedupe_cards"
    /\ UNCHANGED <<run_kind, buildLocals, manifest_log, exit_code, writerVars>>

\* cards = trim_and_dedupe_cards(cards, price_index): the cards of a run
\* have oracle ids of their own, none is dropped
BuildTrim ==
    /\ run_kind = "build" /\ stage = "trim_and_dedupe_cards"
    /\ stage' = "write_output_files"
    /\ UNCHANGED <<run_kind, buildLocals, manifest_log, exit_code, writerVars>>

\* written_files = write_output_files(cards, DATA_DIR) of build.py: the
\* temporary csv, then the split files or the single file, then the
\* temporary file removed.  An empty csv is not over the size limit.
BuildWriteOutputFiles ==
    /\ run_kind = "build" /\ stage = "write_output_files"
    /\ \E over \in (IF run_cards = <<>> THEN {FALSE} ELSE BOOLEAN) :
           LET df == SortByName(run_cards)
               temp_file == "scryfall_oracle_trimmed.csv"
               writes == CardFileWrites(df, over)
           IN /\ card_writes' = card_writes \o <<[name |-> temp_file, rows |-> df]>> \o writes
              /\ written_files' = [k \in 1..Len(writes) |-> writes[k].name]
              /\ data_dir' = (data_dir \cup {writes[k].name : k \in 1..Len(writes)})
                                 \ {temp_file}
    /\ stage' = "write_manifest"
    /\ UNCHANGED <<run_kind, run_cards, manifest_json, manifest_log, exit_code, writerVars>>

\* A write of write_output_files of build.py after the temporary csv
\* raises (OSError): the temporary file stays, build() does not catch it.
BuildWriteFails ==
    /\ run_kind = "build" /\ stage = "write_output_files"
    /\ card_writes' = Append(card_writes,
                          [name |-> "scryfall_oracle_trimmed.csv", rows |-> SortByName(run_cards)])
    /\ data_dir' = data_dir \cup {"scryfall_oracle_trimmed.csv"}
    /\ stage' = "failed"
    /\ exit_code' = ExitStatus(TRUE)
    /\ UNCHANGED <<run_kind, run_cards, written_files, manifest_json, manifest_log, writerVars>>

\* write_manifest(written_files, DATA_DIR), and build() returns
WriteManifest ==
    /\ run_kind = "build" /\ stage = "write_manifest"
    /\ manifest_json' = Manifest(written_files, manifest_json.files)
    /\ manifest_log' = Append(manifest_log,
                           [manifest |-> manifest_json',
                            files_before |-> Len(card_writes) + Len(fs_writes)])
    /\ data_dir' = data_dir \cup {"manifest.json"}
    /\ stage' = "done"
    /\ exit_code' = ExitStatus(FALSE)
    /\ UNCHANGED <<run_kind, run_cards, card_writes, written_files, writerVars>>

\* source_file = download_spellbook_data(SPELLBOOK_URL, cache_path)
SpellbookDownload ==
    /\ run_kind = "spellbook" /\ stage = "download_spellbook_data"
    /\ stage' = "parse_spellbook_combos"
    /\ UNCHANGED <<run_kind, buildLocals, manifest_log, exit_code, writerVars>>

\* except Exception: raise SystemExit(1), for the download and the parse
SpellbookFetchOrParseFails ==
    /\ run_kind = "spellbook"
    /\ stage \in {"download_spellbook_data", "parse_spellbook_combos"}
    /\ stage' = "failed"
    /\ exit_code' = ExitStatus(TRUE)
    /\ UNCHANGED <<run_kind, buildLocals, manifest_log, writerVars>>

\* combos = list(parse_spellbook_combos(source_file))
SpellbookParse ==
    /\ run_kind = "spellbook" /\ stage = "parse_spellbook_combos"
    /\ combos' \in RunCombosLists
    /\ stage' = "check_combos"
    /\ UNCHANGED <<run_kind, buildLocals, manifest_log, exit_code, pc, writerLocals>>

\* if not combos: raise SystemExit(1); else write_output_files is entered
SpellbookCheckCombos ==
    /\ run_kind = "spellbook" /\ stage = "check_combos"
    /\ IF combos = <<>>
       THEN stage' = "failed" /\ exit_code' = ExitStatus(TRUE) /\ UNCHANGED pc
       ELSE stage' = "write_output_files" /\ pc' = "jsonl" /\ UNCHANGED exit_code
    /\ UNCHANGED <<run_kind, buildLocals, manifest_log, combos, writerLocals>>

\* A step of write_output_files of build_spellbook.py.
SpellbookWriteStep ==
    /\ run_kind = "spellbook" /\ stage = "write_output_files"
    /\ JsonlLoop \/ JsonlReturn \/ CsvWrite \/ CardIndexWrite \/ MdLoop \/ MdReturn
    /\ UNCHANGED runVars

\* except Exception: raise SystemExit(1), for write_output_files
SpellbookWriteFails ==
    /\ run_kind = "spellbook" /\ stage = "write_output_files" /\ pc # "done"
    /\ stage' = "failed"
    /\ exit_code' = ExitStatus(TRUE)
    /\ UNCHANGED <<run_kind, buildLocals, manifest_log, writerVars>>

\* write_output_files has returned: the files are listed and
\* build_spellbook() returns
SpellbookReturn ==
    /\ run_kind = "spellbook" /\ stage = "write_output_files" /\ pc = "done"
    /\ stage' = "done"
    /\ exit_code' = ExitStatus(FALSE)
    /\ UNCHANGED <<run_kind, buildLocals, manifest_log, writerVars>>

\* What DATA_DIR holds when a run of build() starts: nothing, or the split
\* files and the manifest of an earlier run.
EarlierFiles ==
    <<"scryfall_oracle_trimmed_a-f.csv.gz", "scryfall_oracle_trimmed_o-z.csv.gz">>

EarlierManifest ==
    [exists |-> TRUE, build_date |-> "earlier", files |-> EarlierFiles,
     total_files |-> Len(EarlierFiles)]

---------------------------------------------------------------------------
(* write_markdown_files: the block of one combo.  md_lines is the list of *)
(* the strings appended, each with the comment of the code it is under.   *)

\* f"{value}" of a JSON value of the model
FString(v) == IF v.kind = "str" THEN v.str ELSE "None"

\* isinstance(combo[key], list), for a key the combo has
IsList(combo, key) == key \in Keys(combo) /\ Get(combo, key).kind = "list"

\* md_lines.append under a comment of the code
MdLine(part, text) == [part |-> part, text |-> text]

\* # Heading
HeadingLines(combo) ==
    <<MdLine("Heading", "# " \o FString(DictGet(combo, "id", JStr("unknown"))) \o "\n\n")>>

\* # Cards
CardsLines(combo) ==
    IF IsList(combo, "uses")
    THEN LET uses == Get(combo, "uses").items
         IN <<MdLine("Cards", "**Cards:**\n\n")>>
            \o [k \in 1..Len(uses) |->
                   MdLine("Cards", "- " \o FString(DictGet(uses[k], "name", JStr("Unknown"))) \o "\n")]
            \o <<MdLine("Cards", "\n")>>
    ELSE <<>>

\* features = [p.get("name", "") for p in combo["produces"] if "name" in p]
Features(produces) ==
    LET named(p) == "name" \in Keys(p)
        with_name == SelectSeq(produces, named)
    IN [k \in 1..Len(with_name) |-> FString(Get(with_name[k], "name"))]

\* # Produces
ProducesLines(combo) ==
    IF IsList(combo, "produces") /\ Features(Get(combo, "produces").items) # <<>>
    THEN <<MdLine("Produces",
               "**Produces:** " \o Join(", ", Features(Get(combo, "produces").items)) \o "\n\n")>>
    ELSE <<>>

\* metadata: one entry per key the combo has, in the order of the tests
MetadataOf(combo) ==
    (IF "manaNeeded" \in Keys(combo)
     THEN <<"Mana: " \o FString(Get(combo, "manaNeeded"))>> ELSE <<>>)
    \o (IF "manaValueNeeded" \in Keys(combo)
        THEN <<"MV: " \o FString(Get(combo, "manaValueNeeded"))>> ELSE <<>>)
    \o (IF "identity" \in Keys(combo)
        THEN <<"Colors: " \o FString(Get(combo, "identity"))>> ELSE <<>>)
    \o (IF "popularity" \in Keys(combo)
        THEN <<"Popularity: " \o FString(Get(combo, "popularity"))>> ELSE <<>>)

\* # Metadata
MetadataLines(combo) ==
    IF MetadataOf(combo) # <<>>
    THEN <<MdLine("Metadata", "**" \o Join(", ", MetadataOf(combo)) \o "**\n\n")>>
    ELSE <<>>

\* # Steps (description)
StepsLines(combo) ==
    IF "description" \in Keys(combo)
    THEN <<MdLine("Steps", "**Steps:**\n\n"),
           MdLine("Steps", FString(Get(combo, "description")) \o "\n\n")>>
    ELSE <<>>

\* md_lines.append("---\n\n")
SeparatorLines == <<MdLine("Separator", "---\n\n")>>

MdLinesOf_MetadataBeforeCards(combo) ==
    HeadingLines(combo) \o MetadataLines(combo) \o CardsLines(combo)
        \o ProducesLines(combo) \o StepsLines(combo) \o SeparatorLines

\* md_lines at line 428, after the appends of lines 389-426 in their order
MdLinesOf(combo) ==
    HeadingLines(combo) \o CardsLines(combo) \o ProducesLines(combo)
        \o MetadataLines(combo) \o StepsLines(combo) \o SeparatorLines

\* The body of "for combo in combos" down to combo_md, for one combo.
BuildMdLines ==
    /\ block_pc = "start"
    /\ md_lines' = MdLinesOf(block_combo)
    /\ block_pc' = "built"
    /\ UNCHANGED block_combo

\* The cards of "uses" and the features of "produces" of the model.
BlockUses ==
    {JNull, JList(<<>>),
     JList(<<JObj({Field("name", JStr("Sol Ring"))})>>),
     JList(<<JObj({Field("name", JStr("Sol Ring"))}), JObj({})>>)}

BlockProduces ==
    {JNull, JList(<<>>), JList(<<JObj({})>>),
     JList(<<JObj({Field("name", JStr("Infinite mana"))})>>),
     JList(<<JObj({Field("name", JStr("Infinite mana"))}), JObj({}),
             JObj({Field("name", JStr("Win"))})>>)}

\* The combos of the model: every field present or absent on its own.
BlockCombos ==
    {JObj(i \cup u \cup p \cup mn \cup mv \cup idn \cup pop \cup d) :
        i \in OptionalField("id", {JStr("c1")}),
        u \in OptionalField("uses", BlockUses),
        p \in OptionalField("produces", BlockProduces),
        mn \in OptionalField("manaNeeded", {JStr("{U}")}),
        mv \in OptionalField("manaValueNeeded", {JStr("1")}),
        idn \in OptionalField("identity", {JStr("U")}),
        pop \in OptionalField("popularity", {JStr("7")}),
        d \in OptionalField("description", {JNull, JStr("Tap it.")})}

---------------------------------------------------------------------------
(* _write_card_index (build_spellbook.py).  index is the dict in insertion *)
(* order: a sequence of entries with distinct oracleId.                    *)

\* oracle_id not in index
NotInIndex(index, oracle_id) ==
    \A k \in 1..Len(index) : index[k].oracleId # oracle_id

AppendComboId_Always(combo_ids, combo_id) == Append(combo_ids, combo_id)

\* if combo_id not in index[oracle_id]["combo_ids"]: ...append(combo_id)
AppendComboId(combo_ids, combo_id) ==
    IF \E k \in 1..Len(combo_ids) : combo_ids[k] = combo_id
    THEN combo_ids
    ELSE Append(combo_ids, combo_id)

\* The body of "for card in combo['uses']" for one card.
IndexCard(index, combo_id, card) ==
    LET oracle_id == DictGet(card, "oracleId", JNull)
        name == DictGet(card, "name", JStr(""))
        with_entry == IF NotInIndex(index, oracle_id.str)
                      THEN Append(index, [oracleId |-> oracle_id.str, name |-> name.str,
                                          combo_ids |-> <<>>])
                      ELSE index
    IN IF ~Truthy(oracle_id) THEN index
       ELSE [k \in 1..Len(with_entry) |->
                IF with_entry[k].oracleId = oracle_id.str
                THEN [with_entry[k] EXCEPT !.combo_ids = AppendComboId(@, combo_id)]
                ELSE with_entry[k]]

\* for card in combo["uses"], from the i-th card on
RECURSIVE IndexUses(_, _, _, _)
IndexUses(index, combo_id, uses, i) ==
    IF i > Len(uses) THEN index
    ELSE IndexUses(IndexCard(index, combo_id, uses[i]), combo_id, uses, i + 1)

\* The body of "for combo in combos" for one combo.
IndexCombo(index, combo) ==
    LET combo_id == DictGet(combo, "id", JNull)
    IN IF ~Truthy(combo_id) THEN index
       ELSE IF IsList(combo, "uses")
            THEN IndexUses(index, combo_id.str, Get(combo, "uses").items, 1)
            ELSE index

\* for combo in combos, from the i-th combo on
RECURSIVE IndexCombos(_, _, _)
IndexCombos(index, cs, i) ==
    IF i > Len(cs) THEN index
    ELSE IndexCombos(IndexCombo(index, cs[i]), cs, i + 1)

\* The order of the names of the model as strings.
NameOrder(name) == CASE name = "" -> 0 [] name = "Ashnod" -> 1 [] OTHER -> 2

\* sorted(index.values(), key=lambda x: x["name"]): stable
RECURSIVE InsertEntry(_, _)
InsertEntry(sorted, x) ==
    IF sorted = <<>> THEN <<x>>
    ELSE IF NameOrder(Head(sorted).name) <= NameOrder(x.name)
         THEN <<Head(sorted)>> \o InsertEntry(Tail(sorted), x)
         ELSE <<x>> \o sorted

RECURSIVE SortedEntries(_)
SortedEntries(index) ==
    IF index = <<>> THEN <<>>
    ELSE InsertEntry(SortedEntries(SubSeq(index, 1, Len(index) - 1)), index[Len(index)])

\* _write_card_index: the index is built and its entries are written, one
\* per line, sorted by name.
WriteCardIndex ==
    /\ index_pc = "start"
    /\ card_index' = SortedEntries(IndexCombos(<<>>, index_combos, 1))
    /\ index_pc' = "written"
    /\ UNCHANGED index_combos

\* The cards of "uses" of the model: a card under two names, a second
\* card, a card with an empty oracleId and one without oracleId and name.
IndexCardA == JObj({Field("oracleId", JStr("o1")), Field("name", JStr("Basalt"))})
IndexCardA2 == JObj({Field("oracleId", JStr("o1")), Field("name", JStr("Ashnod"))})
IndexCardB == JObj({Field("oracleId", JStr("o2")), Field("name", JStr("Ashnod"))})
IndexCardNoId == JObj({Field("oracleId", JStr("")), Field("name", JStr("Basalt"))})
IndexCardBare == JObj({})

IndexUsesChoices ==
    {JNull, JList(<<>>), JList(<<IndexCardA>>), JList(<<IndexCardA2, IndexCardB>>),
     JList(<<IndexCardB, IndexCardA>>), JList(<<IndexCardNoId, IndexCardA2>>),
     JList(<<IndexCardA, IndexCardA2>>), JList(<<IndexCardBare, IndexCardB>>)}

IndexInputCombos ==
    {JObj(i \cup u) :
        i \in OptionalField("id", {JStr(""), JStr("c1"), JStr("c2")}),
        u \in OptionalField("uses", IndexUsesChoices)}

IndexCombosLists == UNION {[1..n -> IndexInputCombos] : n \in 0..MaxRunCards}

---------------------------------------------------------------------------
(* The specifications.                                                     *)

WriterIdle ==
    /\ pc = "idle"
    /\ combos = <<>>
    /\ compress = FALSE
    /\ fs_writes = <<>>
    /\ all_written_files = <<>>
    /\ jl_i = 1
    /\ jl_written_files = <<>>
    /\ jl_current_file_index = 1
    /\ jl_current_lines = <<>>
    /\ jl_current_tokens = 0
    /\ jl_current_size_bytes = 0
    /\ md_i = 1
    /\ md_written_files = <<>>
    /\ md_current_file_index = 1
    /\ md_current_lines = <<>>
    /\ md_current_tokens = 0
    /\ md_current_size_bytes = 0

ParseIdle ==
    /\ parse_pc = "idle"
    /\ raw_combo = JNull
    /\ normalized = JNull

PriceIdle ==
    /\ price_pc = "idle"
    /\ default_cards = <<>>
    /\ price_index = <<>>

FilterIdle ==
    /\ filter_pc = "idle"
    /\ filter_cards = <<>>
    /\ playable_cards = <<>>

ColorsIdle ==
    /\ colors_pc = "idle"
    /\ colors_lst = JNull
    /\ colors_result = <<>>

TrimIdle ==
    /\ trim_pc = "idle"
    /\ trim_cards = <<>>
    /\ trim_price_index = [supplied |-> FALSE, index |-> <<>>]
    /\ trim_result = <<>>

MergeIdle ==
    /\ merge_pc = "idle"
    /\ merge_cards = <<>>
    /\ processed_cards = <<>>

RunIdle ==
    /\ run_kind = "none"
    /\ stage = "idle"
    /\ run_cards = <<>>
    /\ card_writes = <<>>
    /\ written_files = <<>>
    /\ data_dir = {}
    /\ manifest_json = NoManifest
    /\ manifest_log = <<>>
    /\ exit_code = -1

BlockIdle ==
    /\ block_pc = "idle"
    /\ block_combo = JNull
    /\ md_lines = <<>>

IndexIdle ==
    /\ index_pc = "idle"
    /\ index_combos = <<>>
    /\ card_index = <<>>

ComboIdle ==
    /\ BlockIdle
    /\ IndexIdle

CardIdle ==
    /\ FilterIdle
    /\ ColorsIdle
    /\ TrimIdle
    /\ MergeIdle
    /\ RunIdle
    /\ ComboIdle

\* write_output_files of build_spellbook.py on every combos list and both
\* compress settings.
Init ==
    /\ pc = "jsonl"
    /\ combos \in CombosLists
    /\ compress \in BOOLEAN
    /\ fs_writes = <<>>
    /\ all_written_files = <<>>
    /\ jl_i = 1
    /\ jl_written_files = <<>>
    /\ jl_current_file_index = 1
    /\ jl_current_lines = <<>>
    /\ jl_current_tokens = 0
    /\ jl_current_size_bytes = 0
    /\ md_i = 1
    /\ md_written_files = <<>>
    /\ md_current_file_index = 1
    /\ md_current_lines = <<>>
    /\ md_current_tokens = 0
    /\ md_current_size_bytes = 0
    /\ ParseIdle
    /\ PriceIdle
    /\ CardIdle

Next ==
    \/ JsonlLoop /\ UNCHANGED <<parseVars, priceVars, cardVars>>
    \/ JsonlReturn /\ UNCHANGED <<parseVars, priceVars, cardVars>>
    \/ CsvWrite /\ UNCHANGED <<parseVars, priceVars, cardVars>>
    \/ CardIndexWrite /\ UNCHANGED <<parseVars, priceVars, cardVars>>
    \/ MdLoop /\ UNCHANGED <<parseVars, priceVars, cardVars>>
    \/ MdReturn /\ UNCHANGED <<parseVars, priceVars, cardVars>>

Spec == Init /\ [][Next]_vars

\* parse_spellbook_combos on every raw combo.
InitParse ==
    /\ parse_pc = "start"
    /\ raw_combo \in RawCombos
    /\ normalized = JNull
    /\ WriterIdle
    /\ PriceIdle
    /\ CardIdle

NextParse ==
    \/ ParseYield /\ UNCHANGED <<writerVars, priceVars, cardVars>>
    \/ ParseRaise /\ UNCHANGED <<writerVars, priceVars, cardVars>>

SpecParse == InitParse /\ [][NextParse]_vars

\* build_oracle_price_index on every default_cards list.
InitPrice ==
    /\ price_pc = "start"
    /\ default_cards \in DefaultCardsLists
    /\ price_index = <<>>
    /\ WriterIdle
    /\ ParseIdle
    /\ CardIdle

NextPrice == BuildOraclePriceIndex /\ UNCHANGED <<writerVars, parseVars, cardVars>>

SpecPrice == InitPrice /\ [][NextPrice]_vars

\* filter_playable_cards on every list of one card.
InitFilter ==
    /\ filter_pc = "start"
    /\ filter_cards \in {<<c>> : c \in FilterInputCards}
    /\ playable_cards = <<>>
    /\ ColorsIdle
    /\ TrimIdle
    /\ MergeIdle
    /\ RunIdle
    /\ ComboIdle
    /\ WriterIdle
    /\ ParseIdle
    /\ PriceIdle

NextFilter ==
    \/ FilterReturn /\ UNCHANGED <<writerVars, parseVars, priceVars, colorsVars, trimVars, mergeVars, runVars, comboVars>>
    \/ FilterRaise /\ UNCHANGED <<writerVars, parseVars, priceVars, colorsVars, trimVars, mergeVars, runVars, comboVars>>

SpecFilter == InitFilter /\ [][NextFilter]_vars

\* colors_str on every color array.
InitColors ==
    /\ colors_pc = "start"
    /\ colors_lst \in ColorArrays
    /\ colors_result = <<>>
    /\ FilterIdle
    /\ TrimIdle
    /\ MergeIdle
    /\ RunIdle
    /\ ComboIdle
    /\ WriterIdle
    /\ ParseIdle
    /\ PriceIdle

NextColors == ColorsStr /\ UNCHANGED <<writerVars, parseVars, priceVars, filterVars, trimVars, mergeVars, runVars, comboVars>>

SpecColors == InitColors /\ [][NextColors]_vars

\* trim_and_dedupe_cards on every list of cards and every price index.
InitTrim ==
    /\ trim_pc = "start"
    /\ trim_cards \in TrimCardsLists
    /\ trim_price_index \in TrimPriceIndexes
    /\ trim_result = <<>>
    /\ FilterIdle
    /\ ColorsIdle
    /\ MergeIdle
    /\ RunIdle
    /\ ComboIdle
    /\ WriterIdle
    /\ ParseIdle
    /\ PriceIdle

NextTrim == TrimAndDedupe /\ UNCHANGED <<writerVars, parseVars, priceVars, filterVars, colorsVars, mergeVars, runVars, comboVars>>

SpecTrim == InitTrim /\ [][NextTrim]_vars

\* merge_dfc_oracle_text on every list of one card.
InitMerge ==
    /\ merge_pc = "start"
    /\ merge_cards \in {<<c>> : c \in MergeInputCards}
    /\ processed_cards = <<>>
    /\ FilterIdle
    /\ ColorsIdle
    /\ TrimIdle
    /\ RunIdle
    /\ ComboIdle
    /\ WriterIdle
    /\ ParseIdle
    /\ PriceIdle

NextMerge ==
    \/ MergeReturn /\ UNCHANGED <<writerVars, parseVars, priceVars, filterVars, colorsVars, trimVars, runVars, comboVars>>
    \/ MergeRaise /\ UNCHANGED <<writerVars, parseVars, priceVars, filterVars, colorsVars, trimVars, runVars, comboVars>>

SpecMerge == InitMerge /\ [][NextMerge]_vars

\* One run of build() or of build_spellbook(), from its first call on.
InitRun ==
    /\ run_kind \in {"build", "spellbook"}
    /\ stage = IF run_kind = "build" THEN "download_oracle" ELSE "download_spellbook_data"
    /\ run_cards = <<>>
    /\ card_writes = <<>>
    /\ written_files = <<>>
    /\ \/ data_dir = {} /\ manifest_json = NoManifest
       \/ /\ run_kind = "build"
          /\ data_dir = {EarlierFiles[k] : k \in 1..Len(EarlierFiles)} \cup {"manifest.json"}
          /\ manifest_json = EarlierManifest
    /\ manifest_log = <<>>
    /\ exit_code = -1
    /\ pc = "idle"
    /\ combos = <<>>
    /\ compress \in (IF run_kind = "spellbook" THEN BOOLEAN ELSE {FALSE})
    /\ fs_writes = <<>>
    /\ all_written_files = <<>>
    /\ jl_i = 1
    /\ jl_written_files = <<>>
    /\ jl_current_file_index = 1
    /\ jl_current_lines = <<>>
    /\ jl_current_tokens = 0
    /\ jl_current_size_bytes = 0
    /\ md_i = 1
    /\ md_written_files = <<>>
    /\ md_current_file_index = 1
    /\ md_current_lines = <<>>
    /\ md_current_tokens = 0
    /\ md_current_size_bytes = 0
    /\ ParseIdle
    /\ PriceIdle
    /\ FilterIdle
    /\ ColorsIdle
    /\ TrimIdle
    /\ MergeIdle
    /\ ComboIdle

runOthers == <<parseVars, priceVars, filterVars, colorsVars, trimVars, mergeVars, comboVars>>

NextRun ==
    \/ BuildDownloadOracle /\ UNCHANGED runOthers
    \/ BuildDownloadFails /\ UNCHANGED runOthers
    \/ BuildFilter /\ UNCHANGED runOthers
    \/ BuildMerge /\ UNCHANGED runOthers
    \/ BuildDownloadDefault /\ UNCHANGED runOthers
    \/ BuildPriceIndex /\ UNCHANGED runOthers
    \/ BuildTrim /\ UNCHANGED runOthers
    \/ BuildWriteOutputFiles /\ UNCHANGED runOthers
    \/ BuildWriteFails /\ UNCHANGED runOthers
    \/ WriteManifest /\ UNCHANGED runOthers
    \/ SpellbookDownload /\ UNCHANGED runOthers
    \/ SpellbookFetchOrParseFails /\ UNCHANGED runOthers
    \/ SpellbookParse /\ UNCHANGED runOthers
    \/ SpellbookCheckCombos /\ UNCHANGED runOthers
    \/ SpellbookWriteStep /\ UNCHANGED runOthers
    \/ SpellbookWriteFails /\ UNCHANGED runOthers
    \/ SpellbookReturn /\ UNCHANGED runOthers

SpecRun == InitRun /\ [][NextRun]_vars

\* The block of write_markdown_files on every combo.
InitBlock ==
    /\ block_pc = "start"
    /\ block_combo \in BlockCombos
    /\ md_lines = <<>>
    /\ IndexIdle
    /\ WriterIdle
    /\ ParseIdle
    /\ PriceIdle
    /\ FilterIdle
    /\ ColorsIdle
    /\ TrimIdle
    /\ MergeIdle
    /\ RunIdle

NextBlock ==
    BuildMdLines /\ UNCHANGED <<writerVars, parseVars, priceVars, filterVars, colorsVars, trimVars, mergeVars, runVars, indexVars>>

SpecBlock == InitBlock /\ [][NextBlock]_vars

\* _write_card_index on every list of combos.
InitIndex ==
    /\ index_pc = "start"
    /\ index_combos \in IndexCombosLists
    /\ card_index = <<>>
    /\ BlockIdle
    /\ WriterIdle
    /\ ParseIdle
    /\ PriceIdle
    /\ FilterIdle
    /\ ColorsIdle
    /\ TrimIdle
    /\ MergeIdle
    /\ RunIdle

NextIndex ==
    WriteCardIndex /\ UNCHANGED <<writerVars, parseVars, priceVars, filterVars, colorsVars, trimVars, mergeVars, runVars, blockVars>>

SpecIndex == InitIndex /\ [][NextIndex]_vars

---------------------------------------------------------------------------
(* Properties of the size-bounded writers (checked under Spec).            *)

RECURSIVE SumBytes(_)
SumBytes(lines) ==
    IF lines = <<>> THEN 0 ELSE combos[Head(lines)].bytes + SumBytes(Tail(lines))

RECURSIVE SumTokens(_)
SumTokens(lines) ==
    IF lines = <<>> THEN 0 ELSE combos[Head(lines)].tokens + SumTokens(Tail(lines))

AllLines == [k \in 1..Len(combos) |-> k]

WritesIn(dir) == SelectSeq(fs_writes, LAMBDA w : w.dir = dir)

\* The contents of the files written into dir, in write order.
Parts(dir) == [k \in 1..Len(WritesIn(dir)) |-> WritesIn(dir)[k].content]

\* The names of the files written into dir, in write order.
Names(dir) == [k \in 1..Len(WritesIn(dir)) |-> WritesIn(dir)[k].name]

Oversized(k) ==
    \/ combos[k].bytes > MAX_FILE_SIZE_BYTES
    \/ combos[k].tokens > MAX_TOKENS_PER_FILE

\* What one loop iteration must do to the batch and to the files of dir,
\* given the batch and the counters before it and the record it handles.
IterationFlushesIff(dir, i, lines, tokens, bytes, lines_after) ==
    LET must == /\ lines # <<>>
                /\ \/ tokens + combos[i].tokens > MAX_TOKENS_PER_FILE
                   \/ bytes + combos[i].bytes > MAX_FILE_SIZE_BYTES
    IN IF must
       THEN /\ Len(fs_writes') = Len(fs_writes) + 1
            /\ fs_writes'[Len(fs_writes')].dir = dir
            /\ fs_writes'[Len(fs_writes')].content = lines
            /\ \A k \in 1..Len(fs_writes) :
                   fs_writes[k].dir = dir
                       => fs_writes[k].name # fs_writes'[Len(fs_writes')].name
            /\ SubSeq(fs_writes', 1, Len(fs_writes)) = fs_writes
            /\ lines_after = <<i>>
       ELSE /\ fs_writes' = fs_writes
            /\ lines_after = Append(lines, i)

\* C1: in write_jsonl_files and write_markdown_files, for every record the
\* current batch is flushed to a new file immediately before the record is
\* added if and only if the batch is non-empty and adding the record would
\* exceed the token ceiling or the byte ceiling (sums of the running
\* counters and the record's counts); with an empty batch nothing is flushed,
\* whatever the record's size.
C1_FlushIffNonEmptyAndOver ==
    [][ /\ (pc = "jsonl" /\ jl_i' = jl_i + 1)
            => IterationFlushesIff("jsonl", jl_i, jl_current_lines, jl_current_tokens,
                                   jl_current_size_bytes, jl_current_lines')
        /\ (pc = "markdown" /\ md_i' = md_i + 1)
            => IterationFlushesIff("markdown", md_i, md_current_lines,
                                   md_current_tokens, md_current_size_bytes,
                                   md_current_lines')
      ]_vars

\* An oversized first record went into the empty batch without a flush, and
\* the second record then flushed it, in both writers.
C1_Witness ==
    /\ pc = "markdown"
    /\ md_i = 3
    /\ Oversized(1)
    /\ Parts("markdown") = << <<1>> >>
    /\ md_current_lines = <<2>>
    /\ Len(Parts("jsonl")) >= 2
    /\ Parts("jsonl")[1] = <<1>>

\* C2: every file written by the size-bounded writers holds exactly one
\* record, or its records' bytes sum to at most MAX_FILE_SIZE_BYTES and
\* their tokens to at most MAX_TOKENS_PER_FILE; so a record that alone
\* exceeds a ceiling is alone in its file.
C2_FileSingleOrWithinCeilings ==
    \A k \in 1..Len(fs_writes) :
        LET w == fs_writes[k]
        IN w.dir \in {"jsonl", "markdown"} =>
             /\ \/ Len(w.content) = 1
                \/ /\ SumBytes(w.content) <= MAX_FILE_SIZE_BYTES
                   /\ SumTokens(w.content) <= MAX_TOKENS_PER_FILE
             /\ \A i \in 1..Len(w.content) :
                    Oversized(w.content[i]) => w.content = <<w.content[i]>>

\* A run that wrote an oversized record alone and a file of two records.
C2_Witness ==
    /\ pc = "done"
    /\ \E k \in 1..Len(Parts("jsonl")) :
           /\ Len(Parts("jsonl")[k]) = 1
           /\ Oversized(Parts("jsonl")[k][1])
    /\ \E k \in 1..Len(Parts("jsonl")) : Len(Parts("jsonl")[k]) = 2
    /\ \E k \in 1..Len(Parts("markdown")) :
           /\ Len(Parts("markdown")[k]) = 1
           /\ Oversized(Parts("markdown")[k][1])

\* C3: on at least two records whose bytes sum to more than the byte ceiling
\* (or whose tokens sum to more than the token ceiling) a size-bounded
\* writer produces at least two files.
C3_OverCeilingGivesTwoFiles ==
    (/\ Len(combos) >= 2
     /\ \/ SumBytes(AllLines) > MAX_FILE_SIZE_BYTES
        \/ SumTokens(AllLines) > MAX_TOKENS_PER_FILE)
    => /\ pc # "jsonl" => (Len(jl_written_files) >= 2 /\ Len(WritesIn("jsonl")) >= 2)
       /\ pc = "done" => (Len(md_written_files) >= 2 /\ Len(WritesIn("markdown")) >= 2)

\* Two records, none oversized, whose bytes sum just over the byte ceiling
\* while their tokens stay within the token ceiling: two files.
C3_Witness ==
    /\ pc = "done"
    /\ Len(combos) = 2
    /\ ~Oversized(1) /\ ~Oversized(2)
    /\ SumBytes(AllLines) = MAX_FILE_SIZE_BYTES + 1
    /\ SumTokens(AllLines) <= MAX_TOKENS_PER_FILE
    /\ Len(jl_written_files) = 2

\* The name the k-th file of a writer must have.
KthName(k, ext) == [stem |-> "combos", num |-> IF k = 1 THEN 0 ELSE k, ext |-> ext]

\* C4: the k-th file a size-bounded writer writes is named combos<ext> for
\* k = 1 and combos_k<ext> for k >= 2 (k grows by one per flush, no number
\* skipped or reused), and the list it returns holds exactly the names of
\* the files written, in write order.
C4_SequentialNames ==
    /\ jl_written_files = Names("jsonl")
    /\ md_written_files = Names("markdown")
    /\ \A k \in 1..Len(Names("jsonl")) :
           Names("jsonl")[k] = KthName(k, IF compress THEN ".jsonl.gz" ELSE ".jsonl")
    /\ \A k \in 1..Len(Names("markdown")) :
           Names("markdown")[k] = KthName(k, IF compress THEN ".md.gz" ELSE ".md")

\* Both writers returned three files.
C4_Witness ==
    /\ pc = "done"
    /\ Len(jl_written_files) = 3
    /\ Len(md_written_files) = 3

\* C5: at end of input a size-bounded writer writes one final file if and
\* only if the remaining batch is non-empty; no file is ever written from an
\* empty batch, and an empty input produces no file and an empty list.
C5_FinalFlushIffRemainder ==
    /\ [][ /\ (pc = "jsonl" /\ pc' = "csv")
               => IF jl_current_lines # <<>>
                  THEN /\ fs_writes' = Append(fs_writes, fs_writes'[Len(fs_writes')])
                       /\ fs_writes'[Len(fs_writes')].dir = "jsonl"
                       /\ fs_writes'[Len(fs_writes')].content = jl_current_lines
                       /\ Len(jl_written_files') = Len(jl_written_files) + 1
                  ELSE fs_writes' = fs_writes /\ jl_written_files' = jl_written_files
           /\ (pc = "markdown" /\ pc' = "done")
               => IF md_current_lines # <<>>
                  THEN /\ fs_writes' = Append(fs_writes, fs_writes'[Len(fs_writes')])
                       /\ fs_writes'[Len(fs_writes')].dir = "markdown"
                       /\ fs_writes'[Len(fs_writes')].content = md_current_lines
                       /\ Len(md_written_files') = Len(md_written_files) + 1
                  ELSE fs_writes' = fs_writes /\ md_written_files' = md_written_files
         ]_vars
    /\ [](\A k \in 1..Len(fs_writes) :
              fs_writes[k].dir \in {"jsonl", "markdown"} => fs_writes[k].content # <<>>)
    /\ [](combos = <<>> =>
              /\ WritesIn("jsonl") = <<>> /\ jl_written_files = <<>>
              /\ WritesIn("markdown") = <<>> /\ md_written_files = <<>>)

\* Both writers wrote their final file from a non-empty remainder that
\* holds the last record.
C5_Witness ==
    /\ pc = "done"
    /\ combos # <<>>
    /\ Len(Parts("jsonl")) >= 2
    /\ Parts("jsonl")[Len(Parts("jsonl"))] = jl_current_lines
    /\ Parts("markdown")[Len(Parts("markdown"))] = md_current_lines
    /\ jl_current_lines[Len(jl_current_lines)] = Len(combos)

\* C6 as stated: the three combo encodings (JSONL, CSV, Markdown) partition
\* the same records into files at the same boundaries.
C6_AllThreeSameBoundaries ==
    pc = "done" =>
        /\ Parts("jsonl") = Parts("markdown")
        /\ Parts("csv") = Parts("jsonl")

\* C6 as amended: the JSONL and the Markdown writer partition the same
\* records (same per-record byte and token counts, same ceilings) into files
\* at the same boundaries; the CSV writer does not split: it writes every
\* row into the single file combos<ext>, whatever the sizes.
C6_JsonlMarkdownSameBoundaries ==
    pc = "done" =>
        /\ Parts("jsonl") = Parts("markdown")
        /\ Parts("csv") = <<AllLines>>
        /\ Names("csv") = <<[stem |-> "combos", num |-> 0,
                             ext |-> IF compress THEN ".csv.gz" ELSE ".csv"]>>

\* A run in which the size-bounded writers split the records into three
\* files, one of them flushed by the token ceiling alone.
C6_Witness ==
    /\ pc = "done"
    /\ Len(Parts("jsonl")) = 3
    /\ Len(Parts("markdown")) = 3
    /\ Len(Parts("csv")) = 1
    /\ SumBytes(AllLines) <= MAX_FILE_SIZE_BYTES + 1

---------------------------------------------------------------------------
(* Properties of parse_spellbook_combos (checked under SpecParse).         *)

RecognizedCardKeys == {"name", "oracleId", "typeLine"}

\* The allow-list of top-level keys of a normalized combo.
NormalizedKeys ==
    {"id", "status", "identity", "manaNeeded", "manaValueNeeded", "description",
     "notes", "popularity", "bracketTag", "legalities", "prices", "variantCount",
     "uses", "produces", "requires", "includes"}

\* C7: the record parse_spellbook_combos yields has as top-level keys only
\* keys of the allow-list, each only if the source has it; every element of
\* its uses has keys within {name, oracleId, typeLine} and every element of
\* its produces has exactly the key set {name}.
C7_OnlyAllowedFields ==
    parse_pc = "yielded" =>
        /\ Keys(normalized) \subseteq NormalizedKeys
        /\ Keys(normalized) \subseteq Keys(raw_combo)
        /\ "uses" \in Keys(normalized) =>
               \A i \in 1..Len(Get(normalized, "uses").items) :
                   /\ Get(normalized, "uses").items[i].kind = "obj"
                   /\ Keys(Get(normalized, "uses").items[i]) \subseteq RecognizedCardKeys
        /\ "produces" \in Keys(normalized) =>
               \A i \in 1..Len(Get(normalized, "produces").items) :
                   /\ Get(normalized, "produces").items[i].kind = "obj"
                   /\ Keys(Get(normalized, "produces").items[i]) = {"name"}

\* A combo with a key outside the allow-list and a card carrying an
\* unrecognized key next to its name was normalized.
C7_Witness ==
    /\ parse_pc = "yielded"
    /\ "spoiler" \in Keys(raw_combo)
    /\ HasList(raw_combo, "uses")
    /\ Get(raw_combo, "uses").items = <<JObj({Field("card", RawObj({"id", "name"}))})>>
    /\ Get(normalized, "uses").items = <<RawObj({"name"})>>

\* A uses entry is kept if and only if it has a card object with at least
\* one of name, oracleId, typeLine.
UsesEntryKept(item) ==
    /\ item.kind = "obj"
    /\ "card" \in Keys(item)
    /\ Get(item, "card").kind = "obj"
    /\ Keys(Get(item, "card")) \cap RecognizedCardKeys # {}

\* A produces entry is kept if and only if it has a feature object with a name.
ProducesEntryKept(item) ==
    /\ item.kind = "obj"
    /\ "feature" \in Keys(item)
    /\ Get(item, "feature").kind = "obj"
    /\ "name" \in Keys(Get(item, "feature"))

ExpectedUses(items) ==
    LET kept == SelectSeq(items, UsesEntryKept)
    IN [i \in 1..Len(kept) |->
           JObj({f \in Get(kept[i], "card").fields : f.k \in RecognizedCardKeys})]

ExpectedProduces(items) ==
    LET kept == SelectSeq(items, ProducesEntryKept)
    IN [i \in 1..Len(kept) |->
           JObj({Field("name", Get(Get(kept[i], "feature"), "name"))})]

\* C8: in the record parse_spellbook_combos yields, uses holds, in source
\* order, exactly the source entries that have a card object from which at
\* least one of name, oracleId, typeLine was extracted, and produces exactly
\* the source entries that have a feature object with a name; every other
\* entry is dropped, and neither list holds an empty placeholder object.
C8_KeptIffRecognizedField ==
    parse_pc = "yielded" =>
        /\ HasList(raw_combo, "uses") =>
               /\ "uses" \in Keys(normalized)
               /\ Get(normalized, "uses").items
                      = ExpectedUses(Get(raw_combo, "uses").items)
               /\ \A i \in 1..Len(Get(normalized, "uses").items) :
                      Get(normalized, "uses").items[i].fields # {}
        /\ HasList(raw_combo, "produces") =>
               /\ "produces" \in Keys(normalized)
               /\ Get(normalized, "produces").items
                      = ExpectedProduces(Get(raw_combo, "produces").items)
               /\ \A i \in 1..Len(Get(normalized, "produces").items) :
                      Get(normalized, "produces").items[i].fields # {}

\* Of two uses entries the first, whose card has no recognized key, was
\* dropped and the second kept.
C8_Witness ==
    /\ parse_pc = "yielded"
    /\ HasList(raw_combo, "uses")
    /\ Len(Get(raw_combo, "uses").items) = 2
    /\ Get(raw_combo, "uses").items[1] = JObj({Field("card", RawObj({"id"}))})
    /\ Get(normalized, "uses").items = <<RawObj({"oracleId"})>>

\* C9: a malformed individual record never raises: whatever is missing,
\* null or of an unexpected JSON type in a raw record (uses or produces
\* entries that are not objects included), the normalizer completes and
\* handles the defect by omission.
C9_MalformedNeverRaises == parse_pc # "raised"

---------------------------------------------------------------------------
(* Properties of build_oracle_price_index (checked under SpecPrice).       *)

\* The observations of an oracle id: one per printing of that id and price
\* key whose figure is a number, each finish of each printing on its own.
Observations(oracle_id) ==
    {ob \in (1..Len(default_cards)) \X {"usd", "usd_foil", "usd_etched"} :
        /\ default_cards[ob[1]].oracle_id = oracle_id
        /\ default_cards[ob[1]].prices[ob[2]].s = "decimal"}

ObservedValue(ob) == default_cards[ob[1]].prices[ob[2]].cents

\* Twice the statistical median of the observed values of obs: the sum of
\* the lower and the upper median, which are equal when the count is odd.
StatisticalMedian2(obs) ==
    LET half == (Cardinality(obs) + 1) \div 2
        atMost(v) == Cardinality({ob \in obs : ObservedValue(ob) <= v})
        atLeast(v) == Cardinality({ob \in obs : ObservedValue(ob) >= v})
        values == {ObservedValue(ob) : ob \in obs}
        lower == CHOOSE v \in values :
                     /\ atMost(v) >= half
                     /\ \A u \in values : atMost(u) >= half => v <= u
        upper == CHOOSE v \in values :
                     /\ atLeast(v) >= half
                     /\ \A u \in values : atLeast(u) >= half => u <= v
    IN lower + upper

\* lowest_price_usd and highest_price_usd of the entry of o are the least
\* and the greatest observed value of o.
LowestAndHighest(o) ==
    LET obs == Observations(o)
        e == price_index[o]
    IN /\ obs # {}
       /\ \E ob \in obs : ObservedValue(ob) = e.lowest_price_usd
       /\ \A ob \in obs : e.lowest_price_usd <= ObservedValue(ob)
       /\ \E ob \in obs : ObservedValue(ob) = e.highest_price_usd
       /\ \A ob \in obs : ObservedValue(ob) <= e.highest_price_usd

\* C10 as stated: for every oracle id in the index, lowest_price_usd is the
\* minimum, highest_price_usd the maximum and median_price_usd the
\* statistical median (the mean of the two middle values when the count is
\* even) of all the observations of that id across its printings, each
\* finish of each printing counted as its own observation.
C10_MedianIsStatisticalMedian ==
    price_pc = "done" =>
        \A o \in DOMAIN price_index :
            /\ LowestAndHighest(o)
            /\ 2 * price_index[o].median_price_usd = StatisticalMedian2(Observations(o))

\* C10, amended: lowest_price_usd is the minimum and highest_price_usd the
\* maximum of the observations of the id, and median_price_usd is their
\* statistical median printed to two decimals: equal to it when it is a
\* whole number of cents, and one of the two neighbouring cent values when
\* it falls on a half cent.
C10_MedianPrintedToTwoDecimals ==
    price_pc = "done" =>
        \A o \in DOMAIN price_index :
            LET m2 == StatisticalMedian2(Observations(o))
                printed == price_index[o].median_price_usd
            IN /\ LowestAndHighest(o)
               /\ m2 % 2 = 0 => 2 * printed = m2
               /\ m2 % 2 = 1 => 2 * printed \in {m2 - 1, m2 + 1}

\* An index entry built from four observations given out of order, two of
\* them by one printing, whose median falls on a half cent.
C10_Witness ==
    /\ price_pc = "done"
    /\ "o1" \in DOMAIN price_index
    /\ Cardinality(Observations("o1")) = 4
    /\ StatisticalMedian2(Observations("o1")) = 3
    /\ default_cards[1].prices.usd = DecimalPrice(3)
    /\ default_cards[1].prices.usd_foil = DecimalPrice(1)
    /\ price_index["o1"].lowest_price_usd = 1
    /\ price_index["o1"].median_price_usd = 2
    /\ price_index["o1"].highest_price_usd = 3

\* C11: for every oracle id in the index, price_summary holds the Range
\* clause and the median clause if and only if the id has two or more
\* observations; with exactly one observation it holds neither.
C11_RangeAndMedianIffSeveral ==
    price_pc = "done" =>
        \A o \in DOMAIN price_index :
            LET summary == price_index[o].price_summary
                n == Cardinality(Observations(o))
            IN /\ n >= 2 => summary.range # <<>> /\ summary.median # <<>>
               /\ n = 1 => summary.range = <<>> /\ summary.median = <<>>
               /\ n >= 1

\* An index with an id of one observation and an id of two.
C11_Witness ==
    /\ price_pc = "done"
    /\ DOMAIN price_index = {"o1", "o2"}
    /\ Cardinality(Observations("o1")) = 2
    /\ Cardinality(Observations("o2")) = 1
    /\ price_index["o1"].price_summary.range = <<1, 3>>
    /\ price_index["o2"].price_summary.range = <<>>

\* The oracle ids of the printings of default_cards.
OracleIds == {default_cards[i].oracle_id : i \in 1..Len(default_cards)}

\* C12: an oracle id is in the index if and only if at least one of its
\* printings quotes a number under usd, usd_foil or usd_etched; a figure
\* that is absent, null or no number adds no observation and is never
\* counted as a price of zero, and an id without any valid observation has
\* no entry.
C12_EntryIffValidObservation ==
    price_pc = "done" =>
        /\ DOMAIN price_index \subseteq OracleIds
        /\ \A o \in OracleIds :
               o \in DOMAIN price_index <=>
                   \E i \in 1..Len(default_cards), k \in 1..Len(price_map) :
                       /\ default_cards[i].oracle_id = o
                       /\ default_cards[i].prices[price_map[k].price_key].s = "decimal"
        /\ \A o \in DOMAIN price_index :
               /\ price_index[o].lowest_price_usd # 0
               /\ price_index[o].price_summary.range = <<>>
                      <=> Cardinality(Observations(o)) = 1

\* An id whose only figure is no number has no entry beside an id that has
\* one valid figure and one null figure.
C12_Witness ==
    /\ price_pc = "done"
    /\ Len(default_cards) = 2
    /\ default_cards[1].oracle_id = "o1"
    /\ default_cards[1].prices = [usd |-> NoPrice, usd_foil |-> DecimalPrice(3), usd_etched |-> NoPrice]
    /\ default_cards[2].oracle_id = "o2"
    /\ default_cards[2].prices = [usd |-> InvalidPrice, usd_foil |-> NoPrice, usd_etched |-> NoPrice]
    /\ DOMAIN price_index = {"o1"}

---------------------------------------------------------------------------
(* Properties of filter_playable_cards (checked under SpecFilter).         *)

\* The record given to the filter.
FilteredCard == filter_cards[1]

\* The field is a string of S.
FieldIn(card, key, S) ==
    /\ key \in Keys(card)
    /\ Get(card, key).kind = "str"
    /\ Get(card, key).str \in S

\* The field is empty or absent.
FieldEmpty(card, key) ==
    \/ key \notin Keys(card)
    \/ Get(card, key) \in {JNull, JStr("")}

\* The four exclusion rules as the claim words them.
LayoutRule(card) == FieldIn(card, "layout", {"art_series", "token", "double_faced_token", "emblem"})

SetTypeRule(card) == FieldIn(card, "set_type", {"memorabilia"})

SetNameRule(card) == FieldIn(card, "set_name", {"Art Series", "Zendikar Rising Art Series"})

TextRule(card) == FieldEmpty(card, "oracle_text") /\ FieldEmpty(card, "type_line")

\* C13: filter_playable_cards drops a record if and only if at least one of
\* the four exclusion rules matches (layout one of art_series, token,
\* double_faced_token, emblem; set_type memorabilia; set_name containing
\* "Art Series"; oracle_text and type_line both empty or absent).  A record
\* of layout token is dropped whatever its other fields, and a record with
\* a non-empty type_line that no other rule matches is kept.
C13_DroppedIffSomeRuleMatches ==
    LET card == FilteredCard
        anyRule == LayoutRule(card) \/ SetTypeRule(card) \/ SetNameRule(card) \/ TextRule(card)
    IN /\ filter_pc = "returned" =>
              /\ playable_cards = <<>> <=> anyRule
              /\ ~anyRule => playable_cards = <<card>>
              /\ (~FieldEmpty(card, "type_line") /\ ~LayoutRule(card)
                      /\ ~SetTypeRule(card) /\ ~SetNameRule(card))
                     => playable_cards = <<card>>
       /\ (filter_pc \in {"returned", "raised"} /\ FieldIn(card, "layout", {"token"}))
              => filter_pc = "returned" /\ playable_cards = <<>>

\* A token with a rules text, a type line and a null set_name is dropped.
C13_Witness ==
    /\ filter_pc = "returned"
    /\ Field("layout", JStr("token")) \in FilteredCard.fields
    /\ Field("set_name", JNull) \in FilteredCard.fields
    /\ Field("oracle_text", JStr("Some text.")) \in FilteredCard.fields
    /\ Field("type_line", JStr("Creature")) \in FilteredCard.fields
    /\ playable_cards = <<>>

\* C14: the filter fails open on absence: a missing layout, set_type or
\* set_name never excludes a record by the rule that reads that field, so
\* a record without the three tag fields that has a non-empty oracle_text
\* or type_line is kept.
C14_AbsentTagNeverExcludes ==
    LET card == FilteredCard
        dropped == filter_pc = "returned" /\ playable_cards = <<>>
    IN filter_pc \in {"returned", "raised"} =>
           /\ ({"layout", "set_type", "set_name"} \cap Keys(card) = {} /\ ~TextRule(card))
                  => filter_pc = "returned" /\ playable_cards = <<card>>
           /\ ("layout" \notin Keys(card) /\ dropped)
                  => SetTypeRule(card) \/ SetNameRule(card) \/ TextRule(card)
           /\ ("set_type" \notin Keys(card) /\ dropped)
                  => LayoutRule(card) \/ SetNameRule(card) \/ TextRule(card)
           /\ ("set_name" \notin Keys(card) /\ dropped)
                  => LayoutRule(card) \/ SetTypeRule(card) \/ TextRule(card)
           /\ "set_name" \notin Keys(card) => filter_pc = "returned"

\* A record that has nothing but a type line is kept.
C14_Witness ==
    /\ filter_pc = "returned"
    /\ Keys(FilteredCard) = {"type_line"}
    /\ Get(FilteredCard, "type_line") = JStr("Creature")
    /\ playable_cards = <<FilteredCard>>

---------------------------------------------------------------------------
(* Properties of colors_str (checked under SpecColors).                    *)

\* The symbols of a color array, None having none.
SymbolsOf(lst) ==
    IF lst = JNull THEN {} ELSE {lst.items[i].str : i \in 1..Len(lst.items)}

\* The position of a symbol in the canonical order W, U, B, R, G.
CanonicalPosition(c) ==
    CASE c = "W" -> 1 [] c = "U" -> 2 [] c = "B" -> 3 [] c = "R" -> 4 [] c = "G" -> 5
      [] OTHER -> 0

\* C15: for every color array (None included) the output of colors_str is
\* a subsequence of the canonical order W, U, B, R, G, holds exactly the
\* distinct symbols of the input, and is the same for every permutation of
\* the input and for every input that repeats symbols.
C15_CanonicalOrderOfDistinctSymbols ==
    colors_pc = "returned" =>
        /\ \A i \in 1..Len(colors_result) : CanonicalPosition(colors_result[i]) > 0
        /\ \A i, j \in 1..Len(colors_result) :
               i < j => CanonicalPosition(colors_result[i]) < CanonicalPosition(colors_result[j])
        /\ {colors_result[i] : i \in 1..Len(colors_result)} = SymbolsOf(colors_lst)
        /\ \A other \in ColorArrays :
               SymbolsOf(other) = SymbolsOf(colors_lst) => colors_str(other) = colors_result

\* G, R, G comes out as R, G.
C15_Witness ==
    /\ colors_pc = "returned"
    /\ colors_lst = JList(<<JStr("G"), JStr("R"), JStr("G")>>)
    /\ colors_result = <<"R", "G">>

---------------------------------------------------------------------------
(* Properties of trim_and_dedupe_cards (checked under SpecTrim).           *)

\* The names of the records of a list, in order.
NamesOf(records) == [i \in 1..Len(records) |-> records[i]["name"]]

\* The oracle_id of an output record, NaN when it has none.
KeyOfRecord(r) == IF "oracle_id" \in DOMAIN r THEN r["oracle_id"] ELSE NaN

\* The card at position i has an oracle_id that an earlier card has too.
SeenEarlier(i) ==
    /\ "oracle_id" \in DOMAIN trim_cards[i]
    /\ \E j \in 1..(i - 1) :
           /\ "oracle_id" \in DOMAIN trim_cards[j]
           /\ trim_cards[j]["oracle_id"] = trim_cards[i]["oracle_id"]

\* The names of the first occurrences among the cards from position i on.
RECURSIVE FirstOccurrences(_)
FirstOccurrences(i) ==
    IF i > Len(trim_cards) THEN <<>>
    ELSE (IF SeenEarlier(i) THEN <<>> ELSE <<trim_cards[i]["name"]>>)
         \o FirstOccurrences(i + 1)

\* C16: trim_and_dedupe_cards returns, in input order, exactly the first
\* occurrence of each oracle_id: no two output records share an oracle_id,
\* every input record whose oracle_id was not seen earlier is in the
\* output, the records without an oracle_id included, and the output is
\* not longer than the input.
C16_FirstOccurrenceOfEachKey ==
    trim_pc = "returned" =>
        /\ NamesOf(trim_result) = FirstOccurrences(1)
        /\ Len(trim_result) <= Len(trim_cards)
        /\ \A i, j \in 1..Len(trim_result) :
               (i # j /\ KeyOfRecord(trim_result[i]) # NaN)
                   => KeyOfRecord(trim_result[i]) # KeyOfRecord(trim_result[j])

\* C18: when a price index is given to trim_and_dedupe_cards, every output
\* record carries all seven price fields: they equal the values of the
\* index entry when the record's oracle_id is in the index, and each of
\* them is the empty string (not absent) when it is not.
C18_PriceFieldsOnEveryRecord ==
    (trim_pc = "returned" /\ trim_price_index.supplied) =>
        \A i \in 1..Len(trim_result) :
            LET r == trim_result[i]
                index == trim_price_index.index
            IN /\ PriceFields \subseteq DOMAIN r
               /\ \A f \in PriceFields :
                      r[f] = IF KeyOfRecord(r) \in DOMAIN index
                             THEN index[KeyOfRecord(r)][f] ELSE ""

---------------------------------------------------------------------------
(* Properties of merge_dfc_oracle_text (checked under SpecMerge).          *)

\* The non-empty texts of the faces of a card, in face order.
FaceTexts(card) ==
    LET faces == Get(card, "card_faces").items
        nonEmpty(face) == /\ "oracle_text" \in Keys(face)
                          /\ Get(face, "oracle_text") \notin {JNull, JStr("")}
        kept == SelectSeq(faces, nonEmpty)
    IN [i \in 1..Len(kept) |-> Get(kept[i], "oracle_text").str]

\* The texts with " // " between every two neighbours.
RECURSIVE Separated(_)
Separated(texts) ==
    IF Len(texts) = 1 THEN texts[1]
    ELSE Separated(SubSeq(texts, 1, Len(texts) - 1)) \o " // " \o texts[Len(texts)]

\* The card has a list of one or more faces.
WithFaces(card) ==
    /\ "card_faces" \in Keys(card)
    /\ Get(card, "card_faces").kind = "list"
    /\ Get(card, "card_faces").items # <<>>

\* The fields of a record other than oracle_text.
OtherFields(card) == {f \in card.fields : f.k # "oracle_text"}

\* When merge_dfc_oracle_text has returned, the record it returns for the
\* card it was given has the merged text and the card's other fields.
MergedAsClaimed ==
    merge_pc = "returned" =>
        /\ Len(processed_cards) = Len(merge_cards)
        /\ \A i \in 1..Len(merge_cards) :
               LET card == merge_cards[i]
                   out == processed_cards[i]
               IN /\ (WithFaces(card) /\ FaceTexts(card) # <<>>)
                         => Field("oracle_text", JStr(Separated(FaceTexts(card)))) \in out.fields
                  /\ OtherFields(out) = OtherFields(card)
                  /\ (~WithFaces(card) \/ FaceTexts(card) = <<>>) => out = card

\* C17: for a record with faces, merge_dfc_oracle_text sets the top-level
\* oracle_text to the non-empty face texts joined in face order with " // "
\* (when a face has a non-empty text) and leaves every other field as it is
\* at the top level; a record without faces is returned unchanged; and the
\* input records are not mutated.
C17_MergedTextAndFrame ==
    /\ []MergedAsClaimed
    /\ [][merge_cards' = merge_cards]_vars

\* A card with its own text and type line and two faces with texts.
C17_Witness ==
    /\ merge_pc = "returned"
    /\ Field("oracle_text", JStr("T")) \in merge_cards[1].fields
    /\ Field("type_line", JStr("Creature")) \in merge_cards[1].fields
    /\ Field("oracle_text", JStr("B // A")) \in processed_cards[1].fields
    /\ Field("type_line", JStr("Creature")) \in processed_cards[1].fields

---------------------------------------------------------------------------
(* The manifest of a run.                                                  *)

\* The output files the run's writers have produced so far, in write
\* order: every file written apart from the temporary csv, which the
\* writer removes again.
ProducedFiles ==
    LET produced(w) == w.name # "scryfall_oracle_trimmed.csv"
        kept == SelectSeq(card_writes, produced)
    IN [k \in 1..Len(kept) |-> kept[k].name]

\* C19: the manifest a run has written has "files" equal to the filenames
\* the run's writers produced, in write order, none of them taken from the
\* manifest of an earlier run, and "total_files" equal to the length of
\* that list.
C19_ManifestListsThisRunsFiles ==
    (stage = "done" /\ manifest_log # <<>>) =>
        /\ manifest_json.exists
        /\ manifest_json.files = ProducedFiles
        /\ manifest_json.total_files = Len(ProducedFiles)
        /\ manifest_log[Len(manifest_log)].manifest = manifest_json

\* A finished run of build() that started over the manifest of an earlier
\* run, and wrote files other than those the earlier manifest lists.
C19_Witness ==
    /\ stage = "done"
    /\ manifest_log # <<>>
    /\ "scryfall_oracle_trimmed_a-f.csv.gz" \in data_dir
    /\ manifest_json.files = <<"scryfall_oracle_trimmed_g-n.csv.gz",
                               "scryfall_oracle_trimmed_o-z.csv.gz">>

\* C20: in every run of a pipeline, build() or build_spellbook(), that
\* reaches DONE, the manifest has been written exactly once, after the last
\* output file of the run, and no output file has been written after it.
C20_ManifestOnceAfterLastFile ==
    stage = "done" =>
        /\ Len(manifest_log) = 1
        /\ manifest_log[1].files_before = Len(card_writes) + Len(fs_writes)

\* The same for the runs of build() alone.
BuildManifestOnceAfterLastFile ==
    (stage = "done" /\ run_kind = "build") =>
        /\ Len(manifest_log) = 1
        /\ manifest_log[1].files_before = Len(card_writes) + Len(fs_writes)

\* A run of build_spellbook() ends DONE with its files written.
SpellbookDoneWithFiles ==
    /\ stage = "done" /\ run_kind = "spellbook" /\ Len(fs_writes) > 0

---------------------------------------------------------------------------
(* The stages of a run.                                                    *)

\* The stage of the pipeline's state machine a call of the code belongs
\* to: downloads fetch, merge_dfc_oracle_text, trim_and_dedupe_cards and
\* parse_spellbook_combos normalize, filter_playable_cards and the test of
\* the combos for emptiness filter.
PipelineStage(st) ==
    CASE st \in {"download_oracle", "download_default", "download_spellbook_data"} -> "FETCHING"
      [] st \in {"merge_dfc_oracle_text", "trim_and_dedupe_cards", "parse_spellbook_combos"} -> "NORMALIZING"
      [] st \in {"filter_playable_cards", "check_combos"} -> "FILTERING"
      [] st = "build_oracle_price_index" -> "AGGREGATING_PRICES"
      [] st = "write_output_files" -> "WRITING"
      [] st = "write_manifest" -> "MANIFESTING"
      [] st = "done" -> "DONE"
      [] st = "failed" -> "FAILED"
      [] OTHER -> "NONE"

\* The stages that may follow a stage once it has completed:
\* AGGREGATING_PRICES is optional.
FollowingStages(ps) ==
    CASE ps = "FETCHING" -> {"NORMALIZING"}
      [] ps = "NORMALIZING" -> {"FILTERING"}
      [] ps = "FILTERING" -> {"AGGREGATING_PRICES", "WRITING"}
      [] ps = "AGGREGATING_PRICES" -> {"WRITING"}
      [] ps = "WRITING" -> {"MANIFESTING"}
      [] ps = "MANIFESTING" -> {"DONE"}
      [] OTHER -> {}

\* C21: a run passes through the stages in the order FETCHING, NORMALIZING,
\* FILTERING, AGGREGATING_PRICES (optional), WRITING, MANIFESTING, DONE:
\* every step of a run stays in its stage, or enters the stage that follows
\* the completed one, or fails; no stage is entered a second time.
C21_StagesInStatedOrder ==
    [][\/ PipelineStage(stage') = PipelineStage(stage)
       \/ PipelineStage(stage') \in FollowingStages(PipelineStage(stage))
       \/ PipelineStage(stage') = "FAILED"]_vars

\* The position of a call in the body of build() or build_spellbook().
CallOrder(st) ==
    CASE st \in {"download_oracle", "download_spellbook_data"} -> 1
      [] st \in {"filter_playable_cards", "parse_spellbook_combos"} -> 2
      [] st \in {"merge_dfc_oracle_text", "check_combos"} -> 3
      [] st = "download_default" -> 4
      [] st = "build_oracle_price_index" -> 5
      [] st = "trim_and_dedupe_cards" -> 6
      [] st = "write_output_files" -> 7
      [] st = "write_manifest" -> 8
      [] OTHER -> 9

\* Every step of a run stays in its call or moves to a later one: no call
\* of a run is made a second time.
CallsOnlyForward ==
    [][CallOrder(stage') >= CallOrder(stage)]_vars

---------------------------------------------------------------------------
(* Failures of a run.                                                      *)

EmptyAfterFiltering ==
    \/ /\ run_kind = "build"
       /\ CallOrder(stage) > 2
       /\ run_cards = <<>>
    \/ /\ run_kind = "spellbook"
       /\ CallOrder(stage) > 3
       /\ combos = <<>>

\* C23: in both pipelines a run whose record set is empty after parsing and
\* filtering aborts: it writes no output file and no manifest, does not
\* reach DONE, and once it has ended it is FAILED with a non-zero exit
\* status.
C23_EmptyRunAborts ==
    EmptyAfterFiltering =>
        /\ card_writes = <<>>
        /\ fs_writes = <<>>
        /\ manifest_log = <<>>
        /\ stage # "done"
        /\ exit_code \in {-1, 1}

\* The same for the runs of build_spellbook() alone.
SpellbookEmptyRunAborts ==
    (EmptyAfterFiltering /\ run_kind = "spellbook") =>
        /\ fs_writes = <<>>
        /\ manifest_log = <<>>
        /\ stage = "failed"
        /\ exit_code = 1

\* A run of build_spellbook() has parsed no combo and has ended.
SpellbookEmptyRunEnded ==
    /\ EmptyAfterFiltering /\ run_kind = "spellbook"

---------------------------------------------------------------------------
(* The files of a whole run of build().                                    *)

\* C24: a finished run of build() on two playable cards has written one
\* CSV, one JSONL and one Markdown file, and a manifest whose "files" has
\* exactly 3 entries and whose "total_files" is 3.
C24_TwoCardsThreeFiles ==
    (stage = "done" /\ run_kind = "build" /\ Len(run_cards) = 2) =>
        /\ Len(manifest_json.files) = 3
        /\ manifest_json.total_files = 3

\* What such a run does write when its csv is not over the size limit: the
\* single compressed csv, and a manifest that lists it alone.
TwoCardsOneFile ==
    (/\ stage = "done" /\ run_kind = "build" /\ Len(run_cards) = 2
     /\ "scryfall_oracle_trimmed.csv.gz" \in data_dir) =>
        /\ manifest_json.files = <<"scryfall_oracle_trimmed.csv.gz">>
        /\ manifest_json.total_files = 1

---------------------------------------------------------------------------
(* The block of a combo in the Markdown export.                            *)

\* The place of a part in the fixed order of the block.
PartRank(part) ==
    CASE part = "Heading" -> 1
      [] part = "Cards" -> 2
      [] part = "Produces" -> 3
      [] part = "Metadata" -> 4
      [] part = "Steps" -> 5
      [] OTHER -> 6

\* The block has a line of the part.
HasPart(part) == \E k \in 1..Len(md_lines) : md_lines[k].part = part

\* The lines of the part in the block.
LinesOfPart(part) == {k \in 1..Len(md_lines) : md_lines[k].part = part}

\* C25: the block of a record renders its parts in the order heading,
\* cards list, produces line, metadata line, description section,
\* separator rule; a part whose source field is absent is omitted, the
\* others keep their relative order, and the heading and the separator
\* rule are always there, once each, as first and last part.
C25_PartsInFixedOrder ==
    block_pc = "built" =>
        /\ Len(md_lines) >= 2
        /\ LinesOfPart("Heading") = {1}
        /\ LinesOfPart("Separator") = {Len(md_lines)}
        /\ \A j, k \in 1..Len(md_lines) :
               j < k => PartRank(md_lines[j].part) <= PartRank(md_lines[k].part)
        /\ "uses" \notin Keys(block_combo) => ~HasPart("Cards")
        /\ "produces" \notin Keys(block_combo) => ~HasPart("Produces")
        /\ ({"manaNeeded", "manaValueNeeded", "identity", "popularity"} \cap Keys(block_combo) = {})
               => ~HasPart("Metadata")
        /\ "description" \notin Keys(block_combo) => ~HasPart("Steps")

\* The block of a combo without "produces" that has cards, metadata and a
\* description.
C25_Witness ==
    /\ block_pc = "built"
    /\ "produces" \notin Keys(block_combo)
    /\ HasPart("Cards") /\ HasPart("Metadata") /\ HasPart("Steps")
    /\ ~HasPart("Produces")
    /\ Len(md_lines) = 8

---------------------------------------------------------------------------
(* The files of the size-bounded writers read back.                        *)

\* What the file holds once the writers are through: the content of the
\* last write under that name.
FileContent(dir, name) ==
    LET ws == {k \in 1..Len(fs_writes) : fs_writes[k].dir = dir /\ fs_writes[k].name = name}
        last == CHOOSE k \in ws : \A j \in ws : j <= k
    IN fs_writes[last].content

\* The contents of the files, one after the other.
RECURSIVE Concatenated(_, _)
Concatenated(dir, names) ==
    IF names = <<>> THEN <<>>
    ELSE FileContent(dir, Head(names)) \o Concatenated(dir, Tail(names))

\* The input records in input order; a serialized record is its position
\* in the input.
InputRecords == [k \in 1..Len(combos) |-> k]

\* C26: the contents of the files a size-bounded writer returns, put
\* together in write order, are exactly the serialized input records in
\* input order: none is lost, duplicated, reordered or split.
C26_FilesHoldInputInOrder ==
    pc = "done" =>
        /\ Concatenated("jsonl", jl_written_files) = InputRecords
        /\ Concatenated("markdown", md_written_files) = InputRecords

\* Three records have gone to more than one file in each writer.
C26_Witness ==
    /\ pc = "done"
    /\ Len(combos) = 3
    /\ Len(jl_written_files) >= 2
    /\ Len(md_written_files) >= 2

---------------------------------------------------------------------------
(* The counters of the batch.                                              *)

\* The sum of the token counts, and of the byte counts, of the records of
\* a batch.
RECURSIVE TokensOf(_)
TokensOf(batch) ==
    IF batch = <<>> THEN 0 ELSE combos[Head(batch)].tokens + TokensOf(Tail(batch))

RECURSIVE BytesOf(_)
BytesOf(batch) ==
    IF batch = <<>> THEN 0 ELSE combos[Head(batch)].bytes + BytesOf(Tail(batch))

\* A record of the batch is in a file already written to the directory.
InFileWritten(dir, batch) ==
    \E k \in 1..Len(fs_writes) :
        /\ fs_writes[k].dir = dir
        /\ \E i \in 1..Len(fs_writes[k].content), j \in 1..Len(batch) :
               fs_writes[k].content[i] = batch[j]

\* C27: at every loop boundary of a size-bounded writer current_tokens and
\* current_size_bytes are the sums of the token and byte counts of exactly
\* the records of the current batch; after a flush the batch holds the
\* pending record alone and the counters are its counts: nothing of the
\* file just written is carried over.
C27_CountersMatchBatch ==
    /\ jl_current_tokens = TokensOf(jl_current_lines)
    /\ jl_current_size_bytes = BytesOf(jl_current_lines)
    /\ md_current_tokens = TokensOf(md_current_lines)
    /\ md_current_size_bytes = BytesOf(md_current_lines)
    /\ pc = "jsonl" => ~InFileWritten("jsonl", jl_current_lines)
    /\ pc = "markdown" => ~InFileWritten("markdown", md_current_lines)

\* The Markdown writer is at a loop boundary right after a flush: the
\* batch holds one record, a file has been written before it.
C27_Witness ==
    /\ pc = "markdown"
    /\ md_written_files # <<>>
    /\ Len(md_current_lines) = 1
    /\ md_current_tokens = combos[md_current_lines[1]].tokens
    /\ md_i <= Len(combos)

---------------------------------------------------------------------------
(* The provenance of the lowest price.                                     *)

\* The place of a price key within a printing, and its finish label.
KeyRank(price_key) ==
    CASE price_key = "usd" -> 1 [] price_key = "usd_foil" -> 2 [] OTHER -> 3

FinishLabel(price_key) ==
    CASE price_key = "usd" -> "nonfoil" [] price_key = "usd_foil" -> "foil" [] OTHER -> "etched"

\* Observation a comes before observation b in input order: printing
\* order, then usd, usd_foil, usd_etched within a printing.
Before(a, b) ==
    \/ a[1] < b[1]
    \/ a[1] = b[1] /\ KeyRank(a[2]) < KeyRank(b[2])

\* The first observation, in input order, among those of the lowest value.
FirstLowest(obs) ==
    CHOOSE ob \in obs :
        /\ \A other \in obs : ObservedValue(ob) <= ObservedValue(other)
        /\ \A other \in obs :
               (other # ob /\ ObservedValue(other) = ObservedValue(ob)) => Before(ob, other)

\* C28: lowest_price_finish, lowest_price_set and lowest_price_collector of
\* an entry all come from one observation whose value is lowest_price_usd:
\* the first in input order of the observations of the lowest value.
C28_LowestFromFirstLowestObservation ==
    price_pc = "done" =>
        \A o \in DOMAIN price_index :
            LET ob == FirstLowest(Observations(o))
                e == price_index[o]
            IN /\ e.lowest_price_usd = ObservedValue(ob)
               /\ e.lowest_price_finish = FinishLabel(ob[2])
               /\ e.lowest_price_set = default_cards[ob[1]].set
               /\ e.lowest_price_collector = default_cards[ob[1]].collector_number

\* Two printings of one card tie for the lowest price: the foil of the
\* first and the nonfoil of the second, after a dearer nonfoil of the first.
C28_Witness ==
    /\ price_pc = "done"
    /\ Len(default_cards) = 2
    /\ default_cards[2].oracle_id = "o1"
    /\ default_cards[1].prices.usd = DecimalPrice(2)
    /\ default_cards[1].prices.usd_foil = DecimalPrice(1)
    /\ default_cards[2].prices.usd = DecimalPrice(1)
    /\ price_index["o1"].lowest_price_finish = "foil"
    /\ price_index["o1"].lowest_price_collector = 1

---------------------------------------------------------------------------
(* The split of the card csv by name.                                      *)

\* The files of the split written by the run, in write order.
BucketWrites ==
    LET bucket(w) == \E k \in 1..Len(ranges) : w.name = ranges[k].filename
    IN SelectSeq(card_writes, bucket)

\* The writer of build() has returned and has split the csv.
SplitDone ==
    /\ run_kind = "build"
    /\ stage \in {"write_manifest", "done"}
    /\ \A k \in 1..Len(card_writes) : card_writes[k].name # "scryfall_oracle_trimmed.csv.gz"

\* How many times the card is in the rows.
TimesIn(rows, card) == Cardinality({k \in 1..Len(rows) : rows[k] = card})

\* How many times the card is in the files of the split, all together.
RECURSIVE TimesInWrites(_, _)
TimesInWrites(writes, card) ==
    IF writes = <<>> THEN 0
    ELSE TimesIn(Head(writes).rows, card) + TimesInWrites(Tail(writes), card)

\* C29: when the card csv is split into a-f, g-n, o-z, the buckets
\* partition the record set: every input card, whatever the first
\* character of its name, is in exactly one file written, none is dropped
\* or written twice, and the returned filenames are those of the non-empty
\* buckets.
C29_BucketsPartitionCards ==
    SplitDone =>
        /\ \A card \in RunCards :
               TimesInWrites(BucketWrites, card) = TimesIn(run_cards, card)
        /\ \A k \in 1..Len(BucketWrites) : BucketWrites[k].rows # <<>>
        /\ written_files = [k \in 1..Len(BucketWrites) |-> BucketWrites[k].name]

\* The same for the cards whose name starts with a letter a to z, in either
\* case; for the others, that they are in no file of the split.
LettersPartitioned ==
    SplitDone =>
        /\ \A card \in RunCards :
               TimesInWrites(BucketWrites, card)
                   = (IF card.name = "1" THEN 0 ELSE TimesIn(run_cards, card))
        /\ \A k \in 1..Len(BucketWrites) : BucketWrites[k].rows # <<>>
        /\ written_files = [k \in 1..Len(BucketWrites) |-> BucketWrites[k].name]

\* A split run with a card whose name starts with a digit.
SplitWithDigitName ==
    /\ SplitDone
    /\ \E k \in 1..Len(run_cards) : run_cards[k].name = "1"
    /\ \E k \in 1..Len(run_cards) : run_cards[k].name = "H"

---------------------------------------------------------------------------
(* The card index.                                                         *)

\* The combo has an id, and a list of cards.
UsableCombo(i) ==
    /\ "id" \in Keys(index_combos[i])
    /\ Get(index_combos[i], "id") \notin {JNull, JStr("")}
    /\ "uses" \in Keys(index_combos[i])
    /\ Get(index_combos[i], "uses").kind = "list"

UsesOf(i) == Get(index_combos[i], "uses").items

\* The occurrences of the card in the combos that have an id: combo i uses
\* it as its j-th card.
Occurrences(oracle_id) ==
    {occ \in (1..Len(index_combos)) \X (1..2) :
        /\ UsableCombo(occ[1])
        /\ occ[2] <= Len(UsesOf(occ[1]))
        /\ Field("oracleId", JStr(oracle_id)) \in UsesOf(occ[1])[occ[2]].fields}

FirstOccurrence(oracle_id) ==
    CHOOSE occ \in Occurrences(oracle_id) :
        \A other \in Occurrences(oracle_id) :
            \/ occ[1] < other[1]
            \/ occ[1] = other[1] /\ occ[2] <= other[2]

\* The name the card has at the occurrence, "" when it has none.
NameAt(occ) ==
    LET card == UsesOf(occ[1])[occ[2]]
    IN IF "name" \in Keys(card) THEN Get(card, "name").str ELSE ""

ComboIdAt(i) == Get(index_combos[i], "id").str

\* The first combo of that id that uses the card.
FirstUse(oracle_id, combo_id) ==
    CHOOSE i \in 1..Len(index_combos) :
        /\ \E occ \in Occurrences(oracle_id) : occ[1] = i /\ ComboIdAt(i) = combo_id
        /\ \A occ \in Occurrences(oracle_id) : ComboIdAt(occ[1]) = combo_id => i <= occ[1]

\* C30: the index has exactly one entry per distinct non-empty oracleId in
\* the uses of a combo that has an id; the entry's combo_ids lists, without
\* duplicates and in first-seen order, exactly the ids of the combos that
\* use the card, and its name is the name at the card's first occurrence.
C30_OneEntryPerCardWithItsCombos ==
    index_pc = "written" =>
        /\ {card_index[k].oracleId : k \in 1..Len(card_index)}
               = {o \in {"o1", "o2"} : Occurrences(o) # {}}
        /\ \A j, k \in 1..Len(card_index) :
               card_index[j].oracleId = card_index[k].oracleId => j = k
        /\ \A k \in 1..Len(card_index) :
               LET e == card_index[k]
               IN /\ {e.combo_ids[a] : a \in 1..Len(e.combo_ids)}
                         = {ComboIdAt(occ[1]) : occ \in Occurrences(e.oracleId)}
                  /\ \A a, b \in 1..Len(e.combo_ids) :
                         a < b => FirstUse(e.oracleId, e.combo_ids[a])
                                      < FirstUse(e.oracleId, e.combo_ids[b])
                  /\ e.name = NameAt(FirstOccurrence(e.oracleId))

\* A card used by c2 and then by c1 under another name, and once more by a
\* second combo of id c2 or within the same combo.
C30_Witness ==
    /\ index_pc = "written"
    /\ Len(index_combos) = 2
    /\ \E k \in 1..Len(card_index) :
           /\ card_index[k].oracleId = "o1"
           /\ card_index[k].combo_ids = <<"c2", "c1">>
           /\ card_index[k].name = "Basalt"
           /\ NameAt(CHOOSE occ \in Occurrences("o1") : occ[1] = 2) = "Ashnod"

=============================================================================
